---- MODULE Spec2Model ----
(***************************************************************************)
(* codespring-notes: the relational store (categories, notes), the Query   *)
(* Layer over it and the Action Layer that wraps each query in a result    *)
(* envelope with cache revalidation.                                       *)
(***************************************************************************)
EXTENDS Integers, Sequences, FiniteSets, TLC

\* ------------------------------------------------------------------ bounds
\* Rows ever inserted into each table, and the last reading of the clock.
MaxCategories == 2
MaxNotes == 2
MaxClock == 1

\* ------------------------------------------------------------ input values
NULL == "null"
Users == {"u1", "u2"}
\* A userId argument as the UI passes it: "" is the falsy, missing identity.
UserArgs == Users \cup {""}
Owners == Users \cup {NULL}
\* Category names in ascending collation order.
CategoryNames == <<"Personal", "Work">>
Colors == {"#aabbcc"}
Titles == {"Standup"}
UntitledNote == "Untitled Note"

CategoryIds == 1..(MaxCategories + 1)
NoteIds == 1..(MaxNotes + 1)
Times == 0..MaxClock

VARIABLES
  categoriesTable,  \* rows of "categories"
  notesTable,       \* rows of "notes"
  nextCategoryId,   \* the next identifier gen_random_uuid() yields for a category
  nextNoteId,       \* the next identifier gen_random_uuid() yields for a note
  now,              \* the server clock, new Date() / now()
  last,             \* the last Action Layer call: arguments, envelope, effects
  auth,             \* the browser session's user (useAuth / auth()), or NULL
  page,             \* the note detail route: NoteDetailPage and its client
  header,           \* the earlier NoteHeader, which saves the title itself
  modal,            \* the add-note form
  peer,             \* the same detail route in a second tab of the browser
  board             \* the notes board: NotesBoard

store == <<categoriesTable, notesTable, nextCategoryId, nextNoteId>>
ui == <<auth, page, header, modal, peer, board>>
vars == <<categoriesTable, notesTable, nextCategoryId, nextNoteId, now, last,
          auth, page, header, modal, peer, board>>

\* ----------------------------------------------------------------- helpers
None == <<>>
Some(x) == <<x>>
Range(s) == {s[i] : i \in 1..Len(s)}
Field(data, f, default) == IF f \in DOMAIN data THEN data[f] ELSE default
NameRank(name) == CHOOSE i \in 1..Len(CategoryNames) : CategoryNames[i] = name

\* orderBy: whether row a may come before row b.
Precedes(orderBy, a, b) ==
  CASE orderBy = "updatedAt desc" -> a.updatedAt >= b.updatedAt
    [] orderBy = "createdAt asc" -> a.createdAt <= b.createdAt
    [] orderBy = "name asc" -> NameRank(a.name) <= NameRank(b.name)

\* Every listing of the rows S in the given order; rows that tie may come
\* back in either order.
OrderedBy(S, orderBy) ==
  {s \in [1..Cardinality(S) -> S] :
     /\ \A i, j \in 1..Cardinality(S) : i # j => s[i] # s[j]
     /\ \A i, j \in 1..Cardinality(S) : i < j => Precedes(orderBy, s[i], s[j])}

DB == [notes |-> notesTable, categories |-> categoriesTable,
       nextNoteId |-> nextNoteId, nextCategoryId |-> nextCategoryId]

\* A query that resolves with value v, having issued `calls` statements.
Returned(v, db, calls) ==
  [threw |-> FALSE, error |-> [instanceofError |-> TRUE, message |-> ""],
   value |-> v, db |-> db, calls |-> calls]

\* A query whose catch block re-throws new Error(message).
Threw(message, calls) ==
  [threw |-> TRUE, error |-> [instanceofError |-> TRUE, message |-> message],
   value |-> None, db |-> DB, calls |-> calls]

\* -------------------------------------------------------------- the schema
\* notes.category_id REFERENCES categories(id)
ForeignKeyUnchecked(categoryId) == TRUE
ForeignKeyOk(categoryId) == \E c \in categoriesTable : c.id = categoryId

\* ON DELETE cascade: the notes left once the categories `gone` are deleted.
NoCascade(notes, gone) == notes
Cascade(notes, gone) == {n \in notes : n.categoryId \notin gone}

\* ------------------------------------------------------ notes: Query Layer
createNote(data, failAt) ==
  IF failAt = 1 \/ ~ForeignKeyOk(data.categoryId)
    THEN Threw("Failed to create note. Please try again.", 1)
    ELSE LET newNote == [id |-> nextNoteId, userId |-> data.userId,
                         categoryId |-> data.categoryId, title |-> data.title,
                         content |-> data.content, createdAt |-> now,
                         updatedAt |-> now]
         IN Returned(Some(newNote),
                     [DB EXCEPT !.notes = @ \cup {newNote},
                                !.nextNoteId = @ + 1], 1)

getNoteById(id, failAt) ==
  IF failAt = 1
    THEN Threw("Failed to retrieve note. Please try again.", 1)
    ELSE LET found == {n \in notesTable : n.id = id}
         IN Returned(IF found = {} THEN None ELSE Some(CHOOSE n \in found : TRUE),
                     DB, 1)

getNotesByUserId(userId, failAt) ==
  IF failAt = 1
    THEN {Threw("Failed to retrieve notes. Please try again.", 1)}
    ELSE {Returned(Some(notes), DB, 1) :
            notes \in OrderedBy({n \in notesTable : n.userId = userId},
                                "updatedAt desc")}

getNotesByCategoryIdAnyUser(categoryId, userId, failAt) ==
  IF failAt = 1
    THEN {Threw("Failed to retrieve notes for category. Please try again.", 1)}
    ELSE {Returned(Some(notes), DB, 1) :
            notes \in OrderedBy({n \in notesTable : n.categoryId = categoryId},
                                "updatedAt desc")}

getNotesByCategoryId(categoryId, userId, failAt) ==
  IF failAt = 1
    THEN {Threw("Failed to retrieve notes for category. Please try again.", 1)}
    ELSE {Returned(Some(notes), DB, 1) :
            notes \in OrderedBy({n \in notesTable : /\ n.categoryId = categoryId
                                                    /\ n.userId = userId},
                                "updatedAt desc")}

\* .set({...data, updatedAt: new Date()}): the server's time wins.
SetClientFirst(n, data) ==
  [id |-> n.id, userId |-> n.userId,
   categoryId |-> Field(data, "categoryId", n.categoryId),
   title |-> Field(data, "title", n.title),
   content |-> Field(data, "content", n.content),
   createdAt |-> n.createdAt,
   updatedAt |-> Field(data, "updatedAt", now)]

\* The mutant of the update that writes the title only.
SetNoteTitleOnly(n, data) ==
  [id |-> n.id, userId |-> n.userId,
   categoryId |-> Field(data, "categoryId", n.categoryId),
   title |-> Field(data, "title", n.title),
   content |-> n.content,
   createdAt |-> n.createdAt,
   updatedAt |-> now]

SetNote(n, data) ==
  [id |-> n.id, userId |-> n.userId,
   categoryId |-> Field(data, "categoryId", n.categoryId),
   title |-> Field(data, "title", n.title),
   content |-> Field(data, "content", n.content),
   createdAt |-> n.createdAt,
   updatedAt |-> now]

updateNote(id, data, failAt) ==
  LET matched == {n \in notesTable : n.id = id}
      rows == {SetNote(n, data) : n \in matched}
  IN IF failAt = 1 \/ \E r \in rows : ~ForeignKeyOk(r.categoryId)
       THEN Threw("Failed to update note. Please try again.", 1)
       ELSE Returned(IF rows = {} THEN None ELSE Some(CHOOSE r \in rows : TRUE),
                     [DB EXCEPT !.notes = (@ \ matched) \cup rows], 1)

deleteNote(id, failAt) ==
  LET matched == {n \in notesTable : n.id = id}
  IN IF failAt = 1
       THEN Threw("Failed to delete note. Please try again.", 1)
       ELSE Returned(IF matched = {} THEN None ELSE Some([id |-> id]),
                     [DB EXCEPT !.notes = @ \ matched], 1)

deleteNotesUnguarded(ids, failAt) ==
  LET matched == {n \in notesTable : n.id \in Range(ids)}
  IN IF failAt = 1
       THEN Threw("Failed to delete notes. Please try again.", 1)
       ELSE Returned(Some([count |-> Cardinality(matched)]),
                     [DB EXCEPT !.notes = @ \ matched], 1)

deleteNotesCountsIds(ids, failAt) ==
  LET matched == {n \in notesTable : n.id \in Range(ids)}
  IN IF Len(ids) = 0
       THEN Returned(Some([count |-> 0]), DB, 0)
       ELSE IF failAt = 1
         THEN Threw("Failed to delete notes. Please try again.", 1)
         ELSE Returned(Some([count |-> Len(ids)]),
                       [DB EXCEPT !.notes = @ \ matched], 1)

deleteNotes(ids, failAt) ==
  LET matched == {n \in notesTable : n.id \in Range(ids)}
  IN IF Len(ids) = 0
       THEN Returned(Some([count |-> 0]), DB, 0)
       ELSE IF failAt = 1
         THEN Threw("Failed to delete notes. Please try again.", 1)
         ELSE Returned(Some([count |-> Cardinality(matched)]),
                       [DB EXCEPT !.notes = @ \ matched], 1)

\* ------------------------------------------------- categories: Query Layer
createCategory(data, failAt) ==
  IF failAt = 1
    THEN Threw("Failed to create category. Please try again.", 1)
    ELSE LET newCategory == [id |-> nextCategoryId, userId |-> data.userId,
                             name |-> data.name, color |-> data.color,
                             createdAt |-> now]
         IN Returned(Some(newCategory),
                     [DB EXCEPT !.categories = @ \cup {newCategory},
                                !.nextCategoryId = @ + 1], 1)

getCategoryById(id, failAt) ==
  IF failAt = 1
    THEN Threw("Failed to retrieve category. Please try again.", 1)
    ELSE LET found == {c \in categoriesTable : c.id = id}
         IN Returned(IF found = {} THEN None ELSE Some(CHOOSE c \in found : TRUE),
                     DB, 1)

getCategoriesByUserId(userId, failAt) ==
  IF failAt = 1
    THEN {Threw("Failed to retrieve categories. Please try again.", 1)}
    ELSE {Returned(Some(categories), DB, 1) :
            categories \in OrderedBy({c \in categoriesTable : c.userId = userId},
                                     "createdAt asc")}

getCategoriesUserFirst(userId, failAt) ==
  IF failAt \in {1, 2}
    THEN {Threw("Failed to retrieve user and base categories. Please try again.",
                failAt)}
    ELSE {Returned(Some(userCategories \o baseCategories), DB, 2) :
            userCategories \in OrderedBy({c \in categoriesTable : c.userId = userId},
                                     "createdAt asc"),
            baseCategories \in OrderedBy({c \in categoriesTable : c.userId = NULL},
                                     "name asc")}

getCategoriesForUserAndBase(userId, failAt) ==
  IF failAt \in {1, 2}
    THEN {Threw("Failed to retrieve user and base categories. Please try again.",
                failAt)}
    ELSE {Returned(Some(baseCategories \o userCategories), DB, 2) :
            userCategories \in OrderedBy({c \in categoriesTable : c.userId = userId},
                                     "createdAt asc"),
            baseCategories \in OrderedBy({c \in categoriesTable : c.userId = NULL},
                                     "name asc")}

SetCategory(c, data) ==
  [id |-> c.id, userId |-> Field(data, "userId", c.userId),
   name |-> Field(data, "name", c.name), color |-> Field(data, "color", c.color),
   createdAt |-> c.createdAt]

updateCategory(id, data, failAt) ==
  LET matched == {c \in categoriesTable : c.id = id}
      rows == {SetCategory(c, data) : c \in matched}
  IN IF failAt = 1
       THEN Threw("Failed to update category. Please try again.", 1)
       ELSE Returned(IF rows = {} THEN None ELSE Some(CHOOSE r \in rows : TRUE),
                     [DB EXCEPT !.categories = (@ \ matched) \cup rows], 1)

deleteCategory(id, failAt) ==
  LET matched == {c \in categoriesTable : c.id = id}
  IN IF failAt = 1
       THEN Threw("Failed to delete category. Please try again.", 1)
       ELSE Returned(IF matched = {} THEN None ELSE Some([id |-> id]),
                     [DB EXCEPT !.categories = @ \ matched,
                                !.notes = Cascade(@, {id})], 1)

\* ------------------------------------------------------------ Action Layer
\* A missing (falsy) identifier argument.
NoId == 0

NoEnvelope == [isSuccess |-> FALSE, message |-> "", data |-> None]

\* The body of an action returns { isSuccess: true, message, data }.
Resolve(q, message, data, revalidated) ==
  [res |-> [isSuccess |-> TRUE, message |-> message, data |-> data],
   thrown |-> FALSE, error |-> q.error, queryThrew |-> q.threw,
   queryError |-> q.error.message, db |-> q.db, calls |-> q.calls,
   revalidated |-> revalidated]

\* The body of an action returns { isSuccess: false, message }.
Reject(message) ==
  [res |-> [isSuccess |-> FALSE, message |-> message, data |-> None],
   thrown |-> FALSE, error |-> [instanceofError |-> TRUE, message |-> ""],
   queryThrew |-> FALSE, queryError |-> "", db |-> DB, calls |-> 0,
   revalidated |-> {}]

\* An exception leaves the body of an action.
Raise(q, error, revalidated) ==
  [res |-> NoEnvelope, thrown |-> TRUE, error |-> error, queryThrew |-> q.threw,
   queryError |-> q.error.message, db |-> q.db, calls |-> q.calls,
   revalidated |-> revalidated]

\* catch (error) { return { isSuccess: false, message: errorMessage } }
\* with errorMessage = error instanceof Error ? error.message : fallback.
TryWithoutCatch(o, fallback) == o

TryCatch(o, fallback) ==
  IF o.thrown
    THEN [o EXCEPT !.thrown = FALSE,
                   !.res = [isSuccess |-> FALSE,
                            message |-> IF o.error.instanceofError
                                          THEN o.error.message ELSE fallback,
                            data |-> None]]
    ELSE o

\* Reading a property of undefined.
TypeError(property) ==
  [instanceofError |-> TRUE,
   message |-> "Cannot read properties of undefined (reading '" \o property \o "')"]

createNoteAction(data, failAt) ==
  LET q == createNote(data, failAt)
  IN TryCatch(IF q.threw
                THEN Raise(q, q.error, {})
                ELSE Resolve(q, "Note created successfully", q.value,
                             {<<"/notes">>} \cup
                             IF data.categoryId # NoId
                               THEN {<<"/notes?categoryId=", data.categoryId>>}
                               ELSE {}),
              "Unknown error creating note")

getNoteByIdActionNoCheck(id, failAt) ==
  LET q == getNoteById(id, failAt)
  IN TryCatch(IF q.threw
                THEN Raise(q, q.error, {})
                ELSE Resolve(q, "Note retrieved successfully", q.value, {}),
              "Unknown error retrieving note")

getNoteByIdAction(id, failAt) ==
  LET q == getNoteById(id, failAt)
  IN TryCatch(IF q.threw
                THEN Raise(q, q.error, {})
                ELSE IF q.value = None
                  THEN [Reject("Note not found") EXCEPT !.calls = q.calls]
                  ELSE Resolve(q, "Note retrieved successfully", q.value, {}),
              "Unknown error retrieving note")

getNotesByUserIdAction(userId, failAt) ==
  {TryCatch(IF q.threw
              THEN Raise(q, q.error, {})
              ELSE Resolve(q, "Notes retrieved successfully", q.value, {}),
            "Unknown error retrieving notes") :
     q \in getNotesByUserId(userId, failAt)}

getNotesByCategoryIdAction(categoryId, userId, failAt) ==
  IF userId = ""
    THEN {TryCatch(Reject("User identification is required to fetch notes by category."),
                   "Unknown error retrieving notes for category")}
    ELSE {TryCatch(IF q.threw
                     THEN Raise(q, q.error, {})
                     ELSE Resolve(q, "Notes for category retrieved successfully",
                                  q.value, {}),
                   "Unknown error retrieving notes for category") :
            q \in getNotesByCategoryId(categoryId, userId, failAt)}

updateNoteAction(id, data, failAt) ==
  LET q == updateNote(id, data, failAt)
      listing == {<<"/notes">>, <<"/notes/", id>>}
  IN TryCatch(IF q.threw
                THEN Raise(q, q.error, {})
                ELSE IF q.value = None
                  THEN Raise(q, TypeError("categoryId"), listing)
                  ELSE Resolve(q, "Note updated successfully", q.value,
                               listing \cup
                               IF q.value[1].categoryId # NoId
                                 THEN {<<"/notes?categoryId=", q.value[1].categoryId>>}
                                 ELSE {}),
              "Unknown error updating note")

deleteNoteActionRevalidatesFirst(id, failAt) ==
  LET q == deleteNote(id, failAt)
  IN TryCatch(IF q.threw
                THEN Raise(q, q.error, {<<"/notes">>})
                ELSE Resolve(q, "Note deleted successfully", q.value,
                             {<<"/notes">>}),
              "Unknown error deleting note")

deleteNoteAction(id, failAt) ==
  LET q == deleteNote(id, failAt)
  IN TryCatch(IF q.threw
                THEN Raise(q, q.error, {})
                ELSE Resolve(q, "Note deleted successfully", q.value,
                             {<<"/notes">>}),
              "Unknown error deleting note")

deleteNotesAction(ids, failAt) ==
  LET q == deleteNotes(ids, failAt)
  IN TryCatch(IF q.threw
                THEN Raise(q, q.error, {})
                ELSE Resolve(q, ToString(q.value[1].count) \o " note(s) deleted successfully",
                             q.value,
                             {<<"/notes">>}),
              "Unknown error deleting multiple notes")

createCategoryAction(data, failAt) ==
  LET q == createCategory(data, failAt)
  IN TryCatch(IF q.threw
                THEN Raise(q, q.error, {})
                ELSE Resolve(q, "Category created successfully", q.value,
                             {<<"/notes">>}),
              "Unknown error creating category")

getCategoryByIdAction(id, failAt) ==
  LET q == getCategoryById(id, failAt)
  IN TryCatch(IF q.threw
                THEN Raise(q, q.error, {})
                ELSE IF q.value = None
                  THEN [Reject("Category not found") EXCEPT !.calls = q.calls]
                  ELSE Resolve(q, "Category retrieved successfully", q.value, {}),
              "Unknown error retrieving category")

getCategoriesByUserIdAction(userId, failAt) ==
  {TryCatch(IF q.threw
              THEN Raise(q, q.error, {})
              ELSE Resolve(q, "Categories retrieved successfully", q.value, {}),
            "Unknown error retrieving categories") :
     q \in getCategoriesByUserId(userId, failAt)}

getCategoriesForUserAndBaseAction(userId, failAt) ==
  {TryCatch(IF q.threw
              THEN Raise(q, q.error, {})
              ELSE Resolve(q, "User and base categories retrieved successfully",
                           q.value, {}),
            "Unknown error retrieving user and base categories") :
     q \in getCategoriesForUserAndBase(userId, failAt)}

updateCategoryAction(id, data, failAt) ==
  LET q == updateCategory(id, data, failAt)
  IN TryCatch(IF q.threw
                THEN Raise(q, q.error, {})
                ELSE Resolve(q, "Category updated successfully", q.value,
                             {<<"/notes">>}),
              "Unknown error updating category")

deleteCategoryAction(id, failAt) ==
  LET q == deleteCategory(id, failAt)
  IN TryCatch(IF q.threw
                THEN Raise(q, q.error, {})
                ELSE Resolve(q, "Category deleted successfully", q.value,
                             {<<"/notes">>}),
              "Unknown error deleting category")

createQuickNoteActionCategoryFirst(categoryId, userId, title, failAt) ==
  IF categoryId = NoId
    THEN Reject("Category ID is required.")
    ELSE IF userId = ""
      THEN Reject("User not authenticated.")
      ELSE LET noteData == [title |-> IF title # "" THEN title ELSE UntitledNote,
                            content |-> "", categoryId |-> categoryId,
                            userId |-> userId]
               q == createNote(noteData, failAt)
           IN TryCatch(IF q.threw
                         THEN Raise(q, q.error, {})
                         ELSE Resolve(q, "Note created successfully and quickly!",
                                      q.value,
                                      {<<"/dashboard/notes">>,
                                       <<"/dashboard/notes/", q.value[1].id>>}),
                       "Unknown error creating quick note")

createQuickNoteAction(categoryId, userId, title, failAt) ==
  IF userId = ""
    THEN Reject("User not authenticated.")
    ELSE IF categoryId = NoId
      THEN Reject("Category ID is required.")
      ELSE LET noteData == [title |-> IF title # "" THEN title ELSE UntitledNote,
                            content |-> "", categoryId |-> categoryId,
                            userId |-> userId]
               q == createNote(noteData, failAt)
           IN TryCatch(IF q.threw
                         THEN Raise(q, q.error, {})
                         ELSE Resolve(q, "Note created successfully and quickly!",
                                      q.value,
                                      {<<"/dashboard/notes">>,
                                       <<"/dashboard/notes/", q.value[1].id>>}),
                       "Unknown error creating quick note")

\* ------------------------------------------------------------ input values
\* InsertNote as add-note-modal builds it: the four form fields, no timestamps.
NoteInserts ==
  [userId : Users, categoryId : CategoryIds, title : Titles, content : {""}]

\* Partial<InsertNote> of a title edit, a move to another category, a save.
NotePartials ==
  [title : Titles] \cup [categoryId : CategoryIds]
    \cup [title : Titles, content : {""}]

\* Partial<InsertNote> with and without a caller-supplied updatedAt.
StampedPartials ==
  [title : Titles] \cup [updatedAt : Times] \cup [title : Titles, updatedAt : Times]

CategoryInserts ==
  [userId : Owners, name : Range(CategoryNames), color : Colors]

CategoryPartials ==
  [name : Range(CategoryNames)] \cup [name : Range(CategoryNames), color : Colors]

\* string[] of note identifiers, repeats allowed.
IdLists == UNION {[1..n -> NoteIds] : n \in 0..2}

\* ------------------------------------------------------------- transitions
Idle ==
  [op |-> "none", arg |-> <<>>, failAt |-> 0, res |-> NoEnvelope,
   escaped |-> FALSE, queryThrew |-> FALSE, queryError |-> "",
   calls |-> 0, revalidated |-> {}, before |-> [notes |-> {}, categories |-> {}]]

\* The server runs one Action Layer call: the store takes the query's effect
\* and the outcome o is on its way to the caller; `before` keeps the rows as
\* they were when the call was made.
Commit(op, arg, failAt, o) ==
  /\ last = Idle
  /\ notesTable' = o.db.notes
  /\ categoriesTable' = o.db.categories
  /\ nextNoteId' = o.db.nextNoteId
  /\ nextCategoryId' = o.db.nextCategoryId
  /\ last' = [op |-> op, arg |-> arg, failAt |-> failAt, res |-> o.res,
              escaped |-> o.thrown, queryThrew |-> o.queryThrew,
              queryError |-> o.queryError, calls |-> o.calls,
              revalidated |-> o.revalidated,
              before |-> [notes |-> notesTable, categories |-> categoriesTable]]
  /\ UNCHANGED now

\* An Action Layer call made while no view of the UI changes.
Call(op, arg, failAt, o) ==
  /\ Commit(op, arg, failAt, o)
  /\ UNCHANGED ui

CreateNoteAction(data, failAt) ==
  /\ nextNoteId <= MaxNotes
  /\ Call("createNoteAction", data, failAt, createNoteAction(data, failAt))

GetNoteByIdAction(id, failAt) ==
  Call("getNoteByIdAction", [id |-> id], failAt, getNoteByIdAction(id, failAt))

GetNotesByUserIdAction(userId, failAt) ==
  \E o \in getNotesByUserIdAction(userId, failAt) :
    Call("getNotesByUserIdAction", [userId |-> userId], failAt, o)

GetNotesByCategoryIdAction(categoryId, userId, failAt) ==
  \E o \in getNotesByCategoryIdAction(categoryId, userId, failAt) :
    Call("getNotesByCategoryIdAction",
         [categoryId |-> categoryId, userId |-> userId], failAt, o)

UpdateNoteAction(id, data, failAt) ==
  Call("updateNoteAction", [id |-> id, data |-> data], failAt,
       updateNoteAction(id, data, failAt))

DeleteNoteAction(id, failAt) ==
  Call("deleteNoteAction", [id |-> id], failAt, deleteNoteAction(id, failAt))

DeleteNotesAction(ids, failAt) ==
  Call("deleteNotesAction", [ids |-> ids], failAt, deleteNotesAction(ids, failAt))

CreateCategoryAction(data, failAt) ==
  /\ nextCategoryId <= MaxCategories
  /\ Call("createCategoryAction", data, failAt, createCategoryAction(data, failAt))

GetCategoryByIdAction(id, failAt) ==
  Call("getCategoryByIdAction", [id |-> id], failAt,
       getCategoryByIdAction(id, failAt))

GetCategoriesByUserIdAction(userId, failAt) ==
  \E o \in getCategoriesByUserIdAction(userId, failAt) :
    Call("getCategoriesByUserIdAction", [userId |-> userId], failAt, o)

GetCategoriesForUserAndBaseAction(userId, failAt) ==
  \E o \in getCategoriesForUserAndBaseAction(userId, failAt) :
    Call("getCategoriesForUserAndBaseAction", [userId |-> userId], failAt, o)

UpdateCategoryAction(id, data, failAt) ==
  Call("updateCategoryAction", [id |-> id, data |-> data], failAt,
       updateCategoryAction(id, data, failAt))

DeleteCategoryAction(id, failAt) ==
  Call("deleteCategoryAction", [id |-> id], failAt,
       deleteCategoryAction(id, failAt))

CreateQuickNoteAction(categoryId, userId, title, failAt) ==
  /\ nextNoteId <= MaxNotes
  /\ Call("createQuickNoteAction",
          [categoryId |-> categoryId, userId |-> userId, title |-> title],
          failAt, createQuickNoteAction(categoryId, userId, title, failAt))

\* The server clock moves on between calls.
Tick ==
  /\ last = Idle
  /\ now < MaxClock
  /\ now' = now + 1
  /\ UNCHANGED <<store, last, ui>>

\* ---------------------------------------------------------------- UI text
\* Titles and search text as the user types them, character by character.
Whitespace == {" "}

RECURSIVE TrimStart(_)
TrimStart(s) ==
  IF s # <<>> /\ Head(s) \in Whitespace THEN TrimStart(Tail(s)) ELSE s

RECURSIVE TrimEnd(_)
TrimEnd(s) ==
  IF s # <<>> /\ s[Len(s)] \in Whitespace
    THEN TrimEnd(SubSeq(s, 1, Len(s) - 1)) ELSE s

\* String.prototype.trim()
Trim(s) == TrimEnd(TrimStart(s))

\* What a user types into a title field.
TypedTitles == {<<" ">>, <<"a">>, <<"a", " ">>, <<"b">>}
\* What the rich-text widget yields from getHTML().
Htmls == {"", "<p>x</p>"}

\* How a dispatched server action call ends for the browser: its envelope
\* arrives, or the call rejects before or after the server ran the action.
Transports == {"ok", "request lost", "response lost"}

\* Calls a view may have in flight at once.
MaxInFlight == 2
\* Debounce timers that may be pending at once.
MaxTimers == 2
\* Runs of the board's loadAllNotes per mount.
MaxLoads == 2

BoardRoute == <<"/dashboard/notes">>
\* `/dashboard/notes/${id}`
DetailRoute(id) == <<"/dashboard/notes/", id>>

\* --------------------------------------------------------- the session
SignIn(userId) ==
  /\ auth = NULL
  /\ auth' = userId
  /\ UNCHANGED <<store, now, last, page, header, modal, peer, board>>

SignOut ==
  /\ auth # NULL
  /\ auth' = NULL
  /\ UNCHANGED <<store, now, last, page, header, modal, peer, board>>

\* ------------------------------------------------- the note detail route
\* Nothing of the detail route is mounted.
Closed ==
  [view |-> "closed", viewer |-> NULL, fetches |-> 0, note |-> None,
   category |-> None, currentTitle |-> <<>>, currentContent |-> "",
   isSaving |-> FALSE, editor |-> "", timers |-> {}, updateTimeoutRef |-> None,
   inFlight |-> <<>>, at |-> None, sent |-> <<>>, result |-> None,
   toast |-> "", fired |-> None, pushed |-> None]

\* A view once it has been rendered with the outcome of its last handler:
\* what the handler read and sent, its result, its toast and the record of
\* the timer that ran are gone (a view without a field is left as it is).
Rendered(v) ==
  [v EXCEPT !.at = None, !.sent = <<>>, !.result = None, !.toast = "",
            !.fired = None]

\* useState(initialNote), useState(initialNote.title), ...
NoteDetailPageClient(initialNote, initialCategory, userId) ==
  [Closed EXCEPT !.view = "client", !.viewer = userId, !.fetches = 2,
                 !.note = Some(initialNote), !.category = initialCategory,
                 !.currentTitle = initialNote.title,
                 !.currentContent = initialNote.content,
                 !.editor = initialNote.content]

\* The mutant of NoteDetailPage that renders whatever note was fetched.
NoteDetailPageNoOwnerCheck(userId, noteId, failAtNote, failAtCategory) ==
  IF userId = NULL
    THEN [Closed EXCEPT !.view = "sign-in"]
    ELSE IF noteId = NoId
      THEN [Closed EXCEPT !.view = "missing id", !.viewer = userId]
      ELSE LET noteResult == getNoteByIdAction(noteId, failAtNote).res
           IN IF noteResult.isSuccess /\ noteResult.data # None
                THEN LET initialNoteData == noteResult.data[1]
                         categoryResult ==
                           getCategoryByIdAction(initialNoteData.categoryId,
                                                 failAtCategory).res
                     IN NoteDetailPageClient(
                          initialNoteData,
                          IF categoryResult.isSuccess /\ categoryResult.data # None
                            THEN categoryResult.data ELSE None,
                          userId)
                ELSE [Closed EXCEPT !.view = "not found", !.viewer = userId,
                                    !.fetches = 1]

\* The server component of /dashboard/notes/[note-id]: what it renders for
\* the session user and the note id of the route.
NoteDetailPage(userId, noteId, failAtNote, failAtCategory) ==
  IF userId = NULL
    THEN [Closed EXCEPT !.view = "sign-in"]
    ELSE IF noteId = NoId
      THEN [Closed EXCEPT !.view = "missing id", !.viewer = userId]
      ELSE LET noteResult == getNoteByIdAction(noteId, failAtNote).res
           IN IF noteResult.isSuccess /\ noteResult.data # None
                THEN IF noteResult.data[1].userId # userId
                  THEN [Closed EXCEPT !.view = "access denied",
                                      !.viewer = userId, !.fetches = 1]
                  ELSE LET initialNoteData == noteResult.data[1]
                           categoryResult ==
                             getCategoryByIdAction(initialNoteData.categoryId,
                                                   failAtCategory).res
                       IN NoteDetailPageClient(
                            initialNoteData,
                            IF categoryResult.isSuccess /\ categoryResult.data # None
                              THEN categoryResult.data ELSE None,
                            userId)
                ELSE [Closed EXCEPT !.view = "not found", !.viewer = userId,
                                    !.fetches = 1]

\* A request for the detail route is rendered; `last` keeps the request.
OpenNoteDetailPage(noteId, failAtNote, failAtCategory) ==
  /\ last = Idle
  /\ page = Rendered(page)
  /\ page.view # "client"
  /\ page' = NoteDetailPage(auth, noteId, failAtNote, failAtCategory)
  /\ last' = [Idle EXCEPT !.op = "NoteDetailPage",
                          !.arg = [noteId |-> noteId, userId |-> auth],
                          !.failAt = failAtNote,
                          !.before = [notes |-> notesTable,
                                      categories |-> categoriesTable]]
  /\ UNCHANGED <<store, now, auth, header, modal, peer, board>>

\* handleTitleChange
HandleTitleChange(newTitle) ==
  /\ page = Rendered(page)
  /\ page.view = "client"
  /\ page.pushed = None
  /\ page.currentTitle # newTitle
  /\ page' = [page EXCEPT !.currentTitle = newTitle]
  /\ UNCHANGED <<store, now, last, auth, header, modal, peer, board>>

\* handleContentChange
HandleContentChange(newContent) ==
  /\ page = Rendered(page)
  /\ page.view = "client"
  /\ page.pushed = None
  /\ page.currentContent # newContent
  /\ page' = [page EXCEPT !.currentContent = newContent]
  /\ UNCHANGED <<store, now, last, auth, header, modal, peer, board>>

\* The handle setTimeout returns: one no pending timer has.
FreshTimer(p) ==
  CHOOSE id \in 1..(MaxTimers + 1) :
    /\ id \notin {t.id : t \in p.timers}
    /\ \A other \in 1..(MaxTimers + 1) :
         other \notin {t.id : t \in p.timers} => id <= other

\* The mutant of onUpdate that sets a timer without clearing the last one.
OnUpdateNoClear(p, html) ==
  LET id == FreshTimer(p)
  IN [p EXCEPT !.editor = html,
               !.timers = @ \cup {[id |-> id, html |-> html, replaced |-> FALSE]},
               !.updateTimeoutRef = Some(id)]

\* NoteEditor.onUpdate on the view p after an edit that left the widget with
\* `html`: clearTimeout(updateTimeoutRef.current), then a new timer that will
\* hand this html to the parent; `replaced` tells whether one was cleared.
OnUpdate(p, html) ==
  LET kept == IF p.updateTimeoutRef # None
                THEN {t \in p.timers : t.id # p.updateTimeoutRef[1]}
                ELSE p.timers
      q == [p EXCEPT !.timers = kept]
      id == FreshTimer(q)
  IN [q EXCEPT !.editor = html,
               !.timers = @ \cup {[id |-> id, html |-> html,
                                    replaced |-> kept # p.timers]},
               !.updateTimeoutRef = Some(id)]

\* The user edits the text in the rich-text widget.
EditorOnUpdate(html) ==
  /\ page = Rendered(page)
  /\ page.view = "client"
  /\ page.pushed = None
  /\ page.editor # html
  /\ Cardinality(page.timers) < MaxTimers
  /\ page' = OnUpdate(page, html)
  /\ UNCHANGED <<store, now, last, auth, header, modal, peer, board>>

\* The timer t runs: debouncedNotifyParentOfChange -> onContentChange ->
\* setCurrentContent; the editor's effect on initialContent then puts the
\* new buffer into the widget if the widget shows something else. Setting
\* the state of a view that is no longer mounted does nothing.
TimerRuns(p, t) ==
  LET q == [p EXCEPT !.timers = @ \ {t},
                     !.fired = Some([timer |-> t, editor |-> p.editor,
                                     view |-> p.view])]
  IN IF p.view # "client"
       THEN q
       ELSE [q EXCEPT !.currentContent = t.html,
                      !.editor = IF t.html # p.currentContent THEN t.html ELSE @]

\* CONTENT_UPDATE_DEBOUNCE_DELAY has passed since a pending timer was set.
EditorTimerFires ==
  /\ page = Rendered(page)
  /\ \E t \in page.timers : page' = TimerRuns(page, t)
  /\ UNCHANGED <<store, now, last, auth, header, modal, peer, board>>

\* The editor's cleanup on unmount: clearTimeout(updateTimeoutRef.current).
\* What is left are the timers still pending in the browser.
Unmounted(p) ==
  [Closed EXCEPT !.timers = IF p.updateTimeoutRef # None
                              THEN {t \in p.timers : t.id # p.updateTimeoutRef[1]}
                              ELSE p.timers]

\* The mutant of the handler that never shows the saving state.
HandlerNeverSaving(p, userId) ==
  LET note == p.note[1]
      title == Trim(p.currentTitle)
      hasTitleChanged == title # Trim(note.title)
      hasContentChanged == p.currentContent # note.content
      q == [p EXCEPT !.at = Some([title |-> p.currentTitle,
                                  content |-> p.currentContent,
                                  note |-> note, userId |-> userId]),
                     !.sent = <<>>, !.result = None]
      call == [id |-> note.id,
               data |-> [title |-> title, content |-> p.currentContent]]
  IN IF userId = NULL
       THEN [q EXCEPT !.toast = "Authentication Error"]
       ELSE IF title = <<>>
         THEN [q EXCEPT !.toast = "Title Required", !.isSaving = FALSE]
         ELSE IF hasTitleChanged \/ hasContentChanged
           THEN [q EXCEPT !.toast = "Saving Note...", !.isSaving = FALSE,
                          !.inFlight = Append(@, call), !.sent = Append(@, call)]
           ELSE [q EXCEPT !.toast = "No Changes", !.isSaving = FALSE,
                          !.pushed = Some(BoardRoute)]

\* The mutant of the handler that saves title and content separately.
HandlerTwoCalls(p, userId) ==
  LET note == p.note[1]
      title == Trim(p.currentTitle)
      hasTitleChanged == title # Trim(note.title)
      hasContentChanged == p.currentContent # note.content
      q == [p EXCEPT !.at = Some([title |-> p.currentTitle,
                                  content |-> p.currentContent,
                                  note |-> note, userId |-> userId]),
                     !.sent = <<>>, !.result = None]
      titleCall == [id |-> note.id, data |-> [title |-> title]]
      contentCall == [id |-> note.id, data |-> [content |-> p.currentContent]]
      calls == (IF hasTitleChanged THEN <<titleCall>> ELSE <<>>)
                 \o (IF hasContentChanged THEN <<contentCall>> ELSE <<>>)
  IN IF userId = NULL
       THEN [q EXCEPT !.toast = "Authentication Error"]
       ELSE IF title = <<>>
         THEN [q EXCEPT !.toast = "Title Required", !.isSaving = FALSE]
         ELSE IF hasTitleChanged \/ hasContentChanged
           THEN [q EXCEPT !.toast = "Saving Note...", !.isSaving = TRUE,
                          !.inFlight = @ \o calls, !.sent = calls]
           ELSE [q EXCEPT !.toast = "No Changes", !.isSaving = FALSE,
                          !.pushed = Some(BoardRoute)]

\* The mutant of the handler without the empty-title check.
HandlerNoTitleCheck(p, userId) ==
  LET note == p.note[1]
      title == Trim(p.currentTitle)
      hasTitleChanged == title # Trim(note.title)
      hasContentChanged == p.currentContent # note.content
      q == [p EXCEPT !.at = Some([title |-> p.currentTitle,
                                  content |-> p.currentContent,
                                  note |-> note, userId |-> userId]),
                     !.sent = <<>>, !.result = None]
      call == [id |-> note.id,
               data |-> [title |-> title, content |-> p.currentContent]]
  IN IF userId = NULL
       THEN [q EXCEPT !.toast = "Authentication Error"]
       ELSE IF hasTitleChanged \/ hasContentChanged
         THEN [q EXCEPT !.toast = "Saving Note...", !.isSaving = TRUE,
                        !.inFlight = Append(@, call), !.sent = Append(@, call)]
         ELSE [q EXCEPT !.toast = "No Changes", !.isSaving = FALSE,
                        !.pushed = Some(BoardRoute)]

\* The mutant of the handler that saves whether or not anything changed.
HandlerAlwaysSaves(p, userId) ==
  LET note == p.note[1]
      title == Trim(p.currentTitle)
      q == [p EXCEPT !.at = Some([title |-> p.currentTitle,
                                  content |-> p.currentContent,
                                  note |-> note, userId |-> userId]),
                     !.sent = <<>>, !.result = None]
      call == [id |-> note.id,
               data |-> [title |-> title, content |-> p.currentContent]]
  IN IF userId = NULL
       THEN [q EXCEPT !.toast = "Authentication Error"]
       ELSE IF title = <<>>
         THEN [q EXCEPT !.toast = "Title Required", !.isSaving = FALSE]
         ELSE [q EXCEPT !.toast = "Saving Note...", !.isSaving = TRUE,
                        !.inFlight = Append(@, call), !.sent = Append(@, call)]

\* handleSaveChangesAndNavigateBack up to its await or its return, run on
\* the state p of the render it was created in; `at` keeps what it read.
HandlerUntilAwait(p, userId) ==
  LET note == p.note[1]
      title == Trim(p.currentTitle)
      hasTitleChanged == title # Trim(note.title)
      hasContentChanged == p.currentContent # note.content
      q == [p EXCEPT !.at = Some([title |-> p.currentTitle,
                                  content |-> p.currentContent,
                                  note |-> note, userId |-> userId]),
                     !.sent = <<>>, !.result = None]
      call == [id |-> note.id,
               data |-> [title |-> title, content |-> p.currentContent]]
  IN IF userId = NULL
       THEN [q EXCEPT !.toast = "Authentication Error"]
       ELSE IF title = <<>>
         THEN [q EXCEPT !.toast = "Title Required", !.isSaving = FALSE]
         ELSE IF hasTitleChanged \/ hasContentChanged
           THEN [q EXCEPT !.toast = "Saving Note...", !.isSaving = TRUE,
                          !.inFlight = Append(@, call), !.sent = Append(@, call)]
           ELSE [q EXCEPT !.toast = "No Changes", !.isSaving = FALSE,
                          !.pushed = Some(BoardRoute)]

\* The Back button, enabled while isSaving is false, is clicked.
HandleSaveChangesAndNavigateBack ==
  /\ page = Rendered(page)
  /\ page.view = "client"
  /\ page.pushed = None
  /\ ~page.isSaving
  /\ Len(page.inFlight) < MaxInFlight
  /\ page' = HandlerUntilAwait(page, auth)
  /\ UNCHANGED <<store, now, last, auth, header, modal, peer, board>>

\* The mutant of the continuation that puts the saved title back on failure.
HandlerAfterAwaitReverting(p, threw, result) ==
  LET q == [p EXCEPT !.inFlight = Tail(@),
                     !.result = Some([threw |-> threw, res |-> result,
                                      call |-> Head(p.inFlight),
                                      note |-> p.note[1],
                                      currentTitle |-> p.currentTitle,
                                      currentContent |-> p.currentContent])]
  IN IF threw
       THEN [q EXCEPT !.toast = "Save Error", !.isSaving = FALSE,
                      !.currentTitle = p.note[1].title]
       ELSE IF result.isSuccess /\ result.data # None
         THEN [q EXCEPT !.note = result.data, !.toast = "Note Saved!",
                        !.isSaving = FALSE, !.pushed = Some(BoardRoute)]
         ELSE [q EXCEPT !.toast = "Save Failed", !.isSaving = FALSE,
                        !.currentTitle = p.note[1].title]

\* The mutant of the continuation that leaves for the board whatever the
\* outcome of the call.
HandlerAfterAwaitLeaving(p, threw, result) ==
  LET q == [p EXCEPT !.inFlight = Tail(@),
                     !.result = Some([threw |-> threw, res |-> result,
                                      call |-> Head(p.inFlight),
                                      note |-> p.note[1],
                                      currentTitle |-> p.currentTitle,
                                      currentContent |-> p.currentContent])]
  IN IF threw
       THEN [q EXCEPT !.toast = "Save Error", !.isSaving = FALSE,
                      !.pushed = Some(BoardRoute)]
       ELSE IF result.isSuccess /\ result.data # None
         THEN [q EXCEPT !.note = result.data, !.toast = "Note Saved!",
                        !.isSaving = FALSE, !.pushed = Some(BoardRoute)]
         ELSE [q EXCEPT !.toast = "Save Failed", !.isSaving = FALSE,
                        !.pushed = Some(BoardRoute)]

\* handleSaveChangesAndNavigateBack from the point its await resolves with
\* the envelope `result`, or rejects (threw).
HandlerAfterAwait(p, threw, result) ==
  LET q == [p EXCEPT !.inFlight = Tail(@),
                     !.result = Some([threw |-> threw, res |-> result,
                                      call |-> Head(p.inFlight),
                                      note |-> p.note[1],
                                      currentTitle |-> p.currentTitle,
                                      currentContent |-> p.currentContent])]
  IN IF threw
       THEN [q EXCEPT !.toast = "Save Error", !.isSaving = FALSE]
       ELSE IF result.isSuccess /\ result.data # None
         THEN [q EXCEPT !.note = result.data, !.toast = "Note Saved!",
                        !.isSaving = FALSE, !.pushed = Some(BoardRoute)]
         ELSE [q EXCEPT !.toast = "Save Failed", !.isSaving = FALSE]

\* The oldest update call in flight ends: the server runs updateNoteAction
\* (unless the request was lost) and the handler resumes.
SaveResolves(failAt, transport) ==
  /\ page = Rendered(page)
  /\ page.view = "client"
  /\ page.inFlight # <<>>
  /\ LET call == Head(page.inFlight)
         o == updateNoteAction(call.id, call.data, failAt)
     IN /\ IF transport = "request lost"
             THEN last = Idle /\ UNCHANGED <<store, now, last>>
             ELSE Commit("updateNoteAction", call, failAt, o)
        /\ page' = HandlerAfterAwait(page, transport # "ok", o.res)
  /\ UNCHANGED <<auth, header, modal, peer, board>>

\* router.push took effect, or the user left the route: the view unmounts
\* and the editor's cleanup clears its timer.
Unmount ==
  /\ last = Idle
  /\ page = Rendered(page)
  /\ page.view # "closed"
  /\ page.inFlight = <<>>
  /\ page' = Unmounted(page)
  /\ UNCHANGED <<store, now, last, auth, header, modal, peer, board>>

\* ------------------------------------------------ a second browser tab
\* The same user has the detail route open in a second tab: another
\* NoteDetailPageClient with its own note, buffers and calls in flight.
OpenPeerNoteDetailPage(noteId) ==
  LET rendered == NoteDetailPage(auth, noteId, 0, 0)
  IN /\ last = Idle
     /\ peer = Rendered(peer)
     /\ peer.view # "client"
     /\ rendered.view = "client"
     /\ peer' = rendered
     /\ UNCHANGED <<store, now, last, auth, page, header, modal, board>>

PeerHandleTitleChange(newTitle) ==
  /\ peer = Rendered(peer)
  /\ peer.view = "client"
  /\ peer.pushed = None
  /\ peer.currentTitle # newTitle
  /\ peer' = [peer EXCEPT !.currentTitle = newTitle]
  /\ UNCHANGED <<store, now, last, auth, page, header, modal, board>>

PeerHandleContentChange(newContent) ==
  /\ peer = Rendered(peer)
  /\ peer.view = "client"
  /\ peer.pushed = None
  /\ peer.currentContent # newContent
  /\ peer' = [peer EXCEPT !.currentContent = newContent]
  /\ UNCHANGED <<store, now, last, auth, page, header, modal, board>>

PeerHandleSaveChangesAndNavigateBack ==
  /\ peer = Rendered(peer)
  /\ peer.view = "client"
  /\ peer.pushed = None
  /\ ~peer.isSaving
  /\ Len(peer.inFlight) < MaxInFlight
  /\ peer' = HandlerUntilAwait(peer, auth)
  /\ UNCHANGED <<store, now, last, auth, page, header, modal, board>>

PeerSaveResolves(failAt, transport) ==
  /\ peer = Rendered(peer)
  /\ peer.view = "client"
  /\ peer.inFlight # <<>>
  /\ LET call == Head(peer.inFlight)
         o == updateNoteAction(call.id, call.data, failAt)
     IN /\ IF transport = "request lost"
             THEN last = Idle /\ UNCHANGED <<store, now, last>>
             ELSE Commit("updateNoteAction", call, failAt, o)
        /\ peer' = HandlerAfterAwait(peer, transport # "ok", o.res)
  /\ UNCHANGED <<auth, page, header, modal, board>>

PeerUnmount ==
  /\ last = Idle
  /\ peer = Rendered(peer)
  /\ peer.view # "closed"
  /\ peer.inFlight = <<>>
  /\ peer' = Closed
  /\ UNCHANGED <<store, now, last, auth, page, header, modal, board>>

\* ------------------------------------------- the earlier note header
\* The NoteHeader that kept the title in its own state and saved it itself.
NoHeader ==
  [mounted |-> FALSE, note |-> None, currentTitle |-> <<>>,
   isEditingTitle |-> FALSE, inFlight |-> <<>>, at |-> None, sent |-> <<>>,
   result |-> None, toast |-> ""]

\* useState(note.title)
NoteHeader(note) ==
  [NoHeader EXCEPT !.mounted = TRUE, !.note = Some(note),
                   !.currentTitle = note.title]

\* The earlier detail page renders the header for a note of the session user.
OpenEarlierNoteDetailPage(noteId, failAt) ==
  /\ last = Idle
  /\ ~header.mounted
  /\ auth # NULL
  /\ LET noteResult == getNoteByIdAction(noteId, failAt).res
     IN /\ noteResult.isSuccess
        /\ noteResult.data # None
        /\ noteResult.data[1].userId = auth
        /\ header' = NoteHeader(noteResult.data[1])
  /\ UNCHANGED <<store, now, last, auth, page, modal, peer, board>>

HandleTitleClick ==
  /\ header.mounted
  /\ header = Rendered(header)
  /\ ~header.isEditingTitle
  /\ header' = [header EXCEPT !.isEditingTitle = TRUE]
  /\ UNCHANGED <<store, now, last, auth, page, modal, peer, board>>

\* The header's own handleTitleChange: typing into the title input.
HandleInputChange(value) ==
  /\ header.mounted
  /\ header = Rendered(header)
  /\ header.isEditingTitle
  /\ header.currentTitle # value
  /\ header' = [header EXCEPT !.currentTitle = value]
  /\ UNCHANGED <<store, now, last, auth, page, modal, peer, board>>

\* handleTitleSave from the point its await resolves or rejects.
TitleSaveAfterAwait(h, threw, result) ==
  LET g == [h EXCEPT !.inFlight = Tail(@), !.isEditingTitle = FALSE,
                     !.result = Some([threw |-> threw, res |-> result])]
  IN IF ~threw /\ result.isSuccess /\ result.data # None
       THEN [g EXCEPT !.currentTitle = result.data[1].title]
       ELSE [g EXCEPT !.currentTitle = h.note[1].title]

\* handleTitleSave up to its await or its return (Enter, the save button,
\* or a blur with a changed title).
HandleTitleSave ==
  /\ header.mounted
  /\ header = Rendered(header)
  /\ header.isEditingTitle
  /\ Len(header.inFlight) < MaxInFlight
  /\ LET note == header.note[1]
         h == [header EXCEPT !.at = Some([title |-> header.currentTitle,
                                          note |-> note]),
                             !.sent = <<>>]
         call == [id |-> note.id, data |-> [title |-> Trim(header.currentTitle)]]
     IN header' =
          IF header.currentTitle = note.title \/ Trim(header.currentTitle) = <<>>
            THEN [h EXCEPT !.isEditingTitle = FALSE, !.currentTitle = note.title]
            ELSE [h EXCEPT !.inFlight = Append(@, call), !.sent = Append(@, call)]
  /\ UNCHANGED <<store, now, last, auth, page, modal, peer, board>>

TitleSaveResolves(failAt, transport) ==
  /\ header.mounted
  /\ header = Rendered(header)
  /\ header.inFlight # <<>>
  /\ LET call == Head(header.inFlight)
         o == updateNoteAction(call.id, call.data, failAt)
     IN /\ IF transport = "request lost"
             THEN last = Idle /\ UNCHANGED <<store, now, last>>
             ELSE Commit("updateNoteAction", call, failAt, o)
        /\ header' = TitleSaveAfterAwait(header, transport # "ok", o.res)
  /\ UNCHANGED <<auth, page, modal, peer, board>>

UnmountHeader ==
  /\ header.mounted
  /\ header.inFlight = <<>>
  /\ header = Rendered(header)
  /\ header' = NoHeader
  /\ UNCHANGED <<store, now, last, auth, page, modal, peer, board>>

\* ------------------------------------------------------- the notes board
\* NotesBoard before it is mounted. `loads` are the runs of loadAllNotes
\* whose fetches are not all settled, `started` numbers the runs, `shown`
\* is the run that last set notesByCategoryId, `added` the notes merged by
\* handleNoteAdded with the number of runs started by then, and `event` is
\* what the last step of the board did.
NoBoard ==
  [mounted |-> FALSE, authLoaded |-> FALSE, userId |-> NULL,
   initialCategories |-> <<>>, notesByCategoryId |-> <<>>,
   isLoadingNotes |-> TRUE, error |-> None, showAddNoteModal |-> FALSE,
   loads |-> <<>>, started |-> 0, shown |-> 0, added |-> {},
   pushed |-> None, event |-> None]

\* The board once it has been rendered with the outcome of its last step.
RenderedBoard(b) == [b EXCEPT !.event = None]

\* NoteNavigationPage: the category lists the server component may pass to
\* the board for the session user.
NoteNavigationPage(userId, failAt) ==
  IF userId = NULL
    THEN {<<>>}
    ELSE {IF o.res.isSuccess /\ o.res.data # None THEN o.res.data[1] ELSE <<>> :
            o \in getCategoriesForUserAndBaseAction(userId, failAt)}

\* The fetches a run of loadAllNotes issues, in the order of the list.
Fetches(categories, userId) ==
  [i \in 1..Len(categories) |->
     [categoryId |-> categories[i].id, userId |-> userId]]

\* The mutant of loadAllNotes that does not wait for the identity.
LoadAllNotesNoAuthWait(b) ==
  LET run == b.started + 1
      seen == [b EXCEPT !.started = run,
                        !.event = Some([kind |-> "effect", run |-> run,
                                        before |-> b, fetches |-> <<>>])]
      userId == IF b.userId = NULL THEN "" ELSE b.userId
  IN IF Len(b.initialCategories) = 0
       THEN [seen EXCEPT !.notesByCategoryId = <<>>, !.isLoadingNotes = FALSE,
                         !.shown = run]
       ELSE [seen EXCEPT
               !.isLoadingNotes = TRUE, !.error = None,
               !.loads = Append(@, [run |-> run,
                                    categories |-> b.initialCategories,
                                    userId |-> userId,
                                    pending |-> 1..Len(b.initialCategories),
                                    notesArrays |-> <<>>,
                                    rejected |-> FALSE]),
               !.event = Some([kind |-> "effect", run |-> run, before |-> b,
                               fetches |-> Fetches(b.initialCategories, userId)])]

\* The effect of the board runs loadAllNotes on the state b it was rendered
\* with, up to its await or its return.
LoadAllNotes(b) ==
  LET run == b.started + 1
      seen == [b EXCEPT !.started = run,
                        !.event = Some([kind |-> "effect", run |-> run,
                                        before |-> b, fetches |-> <<>>])]
  IN IF ~b.authLoaded
       THEN [b EXCEPT !.event = Some([kind |-> "effect", run |-> 0,
                                      before |-> b, fetches |-> <<>>])]
       ELSE IF b.userId = NULL
         THEN [seen EXCEPT
                 !.error = Some(<<"User not authenticated. Please sign in to view notes.">>),
                 !.isLoadingNotes = FALSE, !.notesByCategoryId = <<>>,
                 !.shown = run]
         ELSE IF Len(b.initialCategories) = 0
           THEN [seen EXCEPT !.notesByCategoryId = <<>>,
                             !.isLoadingNotes = FALSE, !.shown = run]
           ELSE [seen EXCEPT
                   !.isLoadingNotes = TRUE, !.error = None,
                   !.loads = Append(@, [run |-> run,
                                        categories |-> b.initialCategories,
                                        userId |-> b.userId,
                                        pending |-> 1..Len(b.initialCategories),
                                        notesArrays |-> <<>>,
                                        rejected |-> FALSE]),
                   !.event = Some([kind |-> "effect", run |-> run, before |-> b,
                                   fetches |-> Fetches(b.initialCategories,
                                                       b.userId)])]

\* initialCategories.find(c => c.id === categoryId)?.name || 'a category'
CategoryLabel(categories, categoryId) ==
  LET found == {i \in 1..Len(categories) : categories[i].id = categoryId}
  IN IF found = {} \/ categories[CHOOSE i \in found : TRUE].name = ""
       THEN "a category"
       ELSE categories[CHOOSE i \in found : TRUE].name

\* The mutant of the message that names no category.
LoadFailedForAny(categories, categoryId) ==
  <<"Failed to load notes for ", "a category", ".">>

\* `Failed to load notes for ${name}.`
LoadFailedFor(categories, categoryId) ==
  <<"Failed to load notes for ", CategoryLabel(categories, categoryId), ".">>

\* newNotesByCatId: the mapping built from the list and the fetched arrays.
NewNotesByCatId(categories, notesArrays) ==
  [id \in {categories[i].id : i \in 1..Len(categories)} |->
     notesArrays[CHOOSE i \in 1..Len(categories) :
                   /\ categories[i].id = id
                   /\ \A j \in 1..Len(categories) : categories[j].id = id => j <= i]]

Without(s, k) == SubSeq(s, 1, k - 1) \o SubSeq(s, k + 1, Len(s))

\* The mutant of the load that publishes every array as it arrives, merged
\* into the mapping it finds.
FetchSettledMerging(b, k, i, threw, result) ==
  LET load == b.loads[k]
      categoryId == load.categories[i].id
      ok == ~threw /\ result.isSuccess /\ result.data # None
      notes == IF ok THEN result.data[1] ELSE <<>>
      settled == [load EXCEPT !.pending = @ \ {i},
                              !.notesArrays = IF threw THEN @ ELSE (i :> notes) @@ @]
      seen == [b EXCEPT
                 !.error = IF threw \/ ok THEN @
                           ELSE Some(LoadFailedFor(load.categories, categoryId)),
                 !.loads = IF settled.pending = {} THEN Without(@, k)
                           ELSE [@ EXCEPT ![k] = settled],
                 !.event = Some([kind |-> "fetch", run |-> load.run, before |-> b,
                                 load |-> settled, index |-> i, threw |-> threw,
                                 result |-> result, published |-> ~threw])]
  IN IF threw
       THEN [seen EXCEPT !.isLoadingNotes = FALSE]
       ELSE [seen EXCEPT
               !.notesByCategoryId = (categoryId :> notes) @@ @,
               !.isLoadingNotes = settled.pending # {},
               !.shown = load.run]

\* The fetch for the i-th category of the k-th run in flight settles, with
\* the envelope `result` or by rejecting (threw): fetchNotesForCategory
\* resumes, and with it Promise.all and loadAllNotes when all its fetches
\* have resolved or, at once, when one rejects.
FetchSettled(b, k, i, threw, result) ==
  LET load == b.loads[k]
      categoryId == load.categories[i].id
      ok == ~threw /\ result.isSuccess /\ result.data # None
      notes == IF ok THEN result.data[1] ELSE <<>>
      settled == [load EXCEPT !.pending = @ \ {i},
                              !.notesArrays = IF threw THEN @ ELSE (i :> notes) @@ @,
                              !.rejected = @ \/ threw]
      publishes == ~settled.rejected /\ settled.pending = {}
      seen == [b EXCEPT
                 !.error = IF threw \/ ok THEN @
                           ELSE Some(LoadFailedFor(load.categories, categoryId)),
                 !.loads = IF settled.pending = {} THEN Without(@, k)
                           ELSE [@ EXCEPT ![k] = settled],
                 !.event = Some([kind |-> "fetch", run |-> load.run, before |-> b,
                                 load |-> settled, index |-> i, threw |-> threw,
                                 result |-> result, published |-> publishes])]
  IN IF threw /\ ~load.rejected
       THEN [seen EXCEPT
               !.error = Some(<<"An unexpected error occurred while loading notes.">>),
               !.isLoadingNotes = FALSE]
       ELSE IF publishes
         THEN [seen EXCEPT
                 !.notesByCategoryId =
                   NewNotesByCatId(load.categories, settled.notesArrays),
                 !.isLoadingNotes = FALSE,
                 !.shown = load.run]
         ELSE seen

\* The mutant of handleNoteAdded that keeps the new note's category only.
HandleNoteAddedAlone(b, newNote) ==
  [b EXCEPT
     !.notesByCategoryId = (newNote.categoryId :> <<newNote>>),
     !.added = @ \cup {[id |-> newNote.id, after |-> b.started]},
     !.pushed = Some(DetailRoute(newNote.id)),
     !.showAddNoteModal = FALSE,
     !.event = Some([kind |-> "added", run |-> 0, before |-> b,
                     note |-> newNote, fetches |-> <<>>])]

\* handleNoteAdded(newNote), then the form's onClose().
HandleNoteAdded(b, newNote) ==
  LET prevNotes == b.notesByCategoryId
      categoryNotes == IF newNote.categoryId \in DOMAIN prevNotes
                         THEN prevNotes[newNote.categoryId] ELSE <<>>
  IN [b EXCEPT
        !.notesByCategoryId =
          (newNote.categoryId :> Append(categoryNotes, newNote)) @@ prevNotes,
        !.added = @ \cup {[id |-> newNote.id, after |-> b.started]},
        !.pushed = Some(DetailRoute(newNote.id)),
        !.showAddNoteModal = FALSE,
        !.event = Some([kind |-> "added", run |-> 0, before |-> b,
                        note |-> newNote, fetches |-> <<>>])]

\* The board route is requested and the board mounts with the categories
\* the server passed; Clerk may or may not have the identity by then.
OpenNotesBoard(failAt, authLoaded) ==
  /\ last = Idle
  /\ ~board.mounted
  /\ \E categories \in NoteNavigationPage(auth, failAt) :
       board' = LoadAllNotes([NoBoard EXCEPT
                                !.mounted = TRUE,
                                !.authLoaded = authLoaded,
                                !.userId = IF authLoaded THEN auth ELSE NULL,
                                !.initialCategories = categories])
  /\ UNCHANGED <<store, now, last, auth, page, header, modal, peer>>

\* useAuth() gives the board another value than it was rendered with: the
\* identity has loaded, or the user has signed in or out. The effect runs.
BoardAuthChanges ==
  /\ board.mounted
  /\ board = RenderedBoard(board)
  /\ board.started < MaxLoads
  /\ <<board.authLoaded, board.userId>> # <<TRUE, auth>>
  /\ board' = [LoadAllNotes([board EXCEPT !.authLoaded = TRUE, !.userId = auth])
                 EXCEPT !.event[1].before = board]
  /\ UNCHANGED <<store, now, last, auth, page, header, modal, peer>>

\* The server renders the board route again and passes a new category
\* array. The effect runs.
BoardCategoriesChange(failAt) ==
  /\ last = Idle
  /\ board.mounted
  /\ board = RenderedBoard(board)
  /\ board.started < MaxLoads
  /\ \E categories \in NoteNavigationPage(auth, failAt) :
       board' = [LoadAllNotes([board EXCEPT !.initialCategories = categories])
                   EXCEPT !.event[1].before = board]
  /\ UNCHANGED <<store, now, last, auth, page, header, modal, peer>>

\* A fetch in flight settles: the server runs getNotesByCategoryIdAction
\* unless the request was lost.
FetchSettles(k, i, failAt, transport) ==
  /\ board.mounted
  /\ board = RenderedBoard(board)
  /\ k \in 1..Len(board.loads)
  /\ i \in board.loads[k].pending
  /\ \E o \in getNotesByCategoryIdAction(board.loads[k].categories[i].id,
                                         board.loads[k].userId, failAt) :
       board' = FetchSettled(board, k, i, transport # "ok", o.res)
  /\ UNCHANGED <<store, now, last, auth, page, header, modal, peer>>

\* The New Note button, disabled while there are no categories.
ShowAddNoteModal ==
  /\ board.mounted
  /\ board = RenderedBoard(board)
  /\ board.authLoaded
  /\ board.error = None
  /\ board.pushed = None
  /\ Len(board.initialCategories) # 0
  /\ ~board.showAddNoteModal
  /\ board' = [board EXCEPT !.showAddNoteModal = TRUE]
  /\ UNCHANGED <<store, now, last, auth, page, header, modal, peer>>

\* The board is left: what its calls in flight bring is no longer seen.
UnmountBoard ==
  /\ last = Idle
  /\ board.mounted
  /\ board = RenderedBoard(board)
  /\ board' = NoBoard
  /\ UNCHANGED <<store, now, last, auth, page, header, modal, peer>>

\* ------------------------------------------------------ the add-note form
NoModal ==
  [error |-> None, isSubmitting |-> FALSE, sent |-> <<>>, at |-> None,
   added |-> None, closed |-> TRUE]

\* AddNoteModal.handleSubmit on the form's fields: the form it leaves, and
\* whether createNoteAction was run with noteData (outcome o).
HandleSubmit(title, selectedCategoryId, userId, failAt, transport) ==
  LET m == [NoModal EXCEPT !.closed = FALSE,
                           !.at = Some([title |-> title,
                                        selectedCategoryId |-> selectedCategoryId,
                                        userId |-> userId])]
      noteData == [title |-> Trim(title), content |-> "",
                   categoryId |-> selectedCategoryId, userId |-> userId]
      o == createNoteAction(noteData, failAt)
      sending == [m EXCEPT !.sent = <<noteData>>]
  IN IF Trim(title) = <<>>
       THEN [modal |-> [m EXCEPT !.error = Some("Title is required.")],
             called |-> FALSE, o |-> o, data |-> noteData]
       ELSE IF selectedCategoryId = NoId
         THEN [modal |-> [m EXCEPT !.error = Some("Please select a category.")],
               called |-> FALSE, o |-> o, data |-> noteData]
         ELSE IF userId = NULL
           THEN [modal |-> [m EXCEPT !.error =
                                       Some("User not authenticated. Please sign in.")],
                 called |-> FALSE, o |-> o, data |-> noteData]
           ELSE IF transport # "ok"
             THEN [modal |-> [sending EXCEPT !.error =
                                Some("Failed to create note. Please try again.")],
                   called |-> FALSE, o |-> o, data |-> noteData]
             ELSE IF o.res.isSuccess /\ o.res.data # None
               THEN [modal |-> [sending EXCEPT !.added = o.res.data,
                                               !.closed = TRUE],
                     called |-> TRUE, o |-> o, data |-> noteData]
               ELSE [modal |-> [sending EXCEPT !.error = Some(o.res.message)],
                     called |-> TRUE, o |-> o, data |-> noteData]

\* The form is submitted with the given fields; the call it makes, if any,
\* is awaited within the step. A board that shows the form gets the new
\* note through onNoteAdded and closes the form.
SubmitAddNote(title, selectedCategoryId, failAt, transport) ==
  LET h == HandleSubmit(title, selectedCategoryId, auth, failAt, transport)
  IN /\ last = Idle
     /\ modal = NoModal
     /\ modal' = h.modal
     /\ IF h.called
          THEN /\ nextNoteId <= MaxNotes
               /\ Commit("createNoteAction", h.data, failAt, h.o)
          ELSE UNCHANGED <<store, now, last>>
     /\ board' = IF board.showAddNoteModal /\ h.modal.added # None
                    THEN HandleNoteAdded(board, h.modal.added[1])
                    ELSE board
     /\ UNCHANGED <<auth, page, header, peer>>

\* The awaiting caller takes the envelope and the views are rendered with
\* the outcome; the next call can be issued.
Settle ==
  /\ \/ last # Idle
     \/ page # Rendered(page)
     \/ header # Rendered(header)
     \/ modal # NoModal
     \/ peer # Rendered(peer)
     \/ board # RenderedBoard(board)
  /\ last' = Idle
  /\ page' = Rendered(page)
  /\ header' = Rendered(header)
  /\ modal' = NoModal
  /\ peer' = Rendered(peer)
  /\ board' = RenderedBoard(board)
  /\ UNCHANGED <<store, now, auth>>

Init ==
  /\ categoriesTable = {}
  /\ notesTable = {}
  /\ nextCategoryId = 1
  /\ nextNoteId = 1
  /\ now = 0
  /\ last = Idle
  /\ auth = NULL
  /\ page = Closed
  /\ header = NoHeader
  /\ modal = NoModal
  /\ peer = Closed
  /\ board = NoBoard

\* Every action of the Action Layer, called within one reading of the clock.
Next ==
  \/ \E data \in NoteInserts, failAt \in 0..1 : CreateNoteAction(data, failAt)
  \/ \E id \in NoteIds, failAt \in 0..1 : GetNoteByIdAction(id, failAt)
  \/ \E userId \in Users, failAt \in 0..1 : GetNotesByUserIdAction(userId, failAt)
  \/ \E categoryId \in CategoryIds, userId \in UserArgs, failAt \in 0..1 :
       GetNotesByCategoryIdAction(categoryId, userId, failAt)
  \/ \E id \in NoteIds, data \in NotePartials, failAt \in 0..1 :
       UpdateNoteAction(id, data, failAt)
  \/ \E id \in NoteIds, failAt \in 0..1 : DeleteNoteAction(id, failAt)
  \/ \E ids \in IdLists, failAt \in 0..1 : DeleteNotesAction(ids, failAt)
  \/ \E data \in [userId : {"u1", NULL}, name : {"Work"}, color : Colors],
        failAt \in 0..1 : CreateCategoryAction(data, failAt)
  \/ \E id \in CategoryIds, failAt \in 0..1 : GetCategoryByIdAction(id, failAt)
  \/ \E userId \in Users, failAt \in 0..1 : GetCategoriesByUserIdAction(userId, failAt)
  \/ \E userId \in Users, failAt \in 0..2 :
       GetCategoriesForUserAndBaseAction(userId, failAt)
  \/ \E id \in CategoryIds, data \in [name : {"Work"}, color : Colors],
        failAt \in 0..1 : UpdateCategoryAction(id, data, failAt)
  \/ \E id \in CategoryIds, failAt \in 0..1 : DeleteCategoryAction(id, failAt)
  \/ \E categoryId \in CategoryIds \cup {NoId}, userId \in UserArgs,
        title \in Titles \cup {""}, failAt \in 0..1 :
       CreateQuickNoteAction(categoryId, userId, title, failAt)
  \/ Settle

Spec == Init /\ [][Next]_vars

\* Notes written and listed while the clock advances; one owner's categories.
NextNotes ==
  \/ \E data \in [userId : {"u1"}, name : {"Work"}, color : Colors],
        failAt \in 0..1 : CreateCategoryAction(data, failAt)
  \/ \E data \in NoteInserts, failAt \in 0..1 : CreateNoteAction(data, failAt)
  \/ \E id \in NoteIds, data \in StampedPartials, failAt \in 0..1 :
       UpdateNoteAction(id, data, failAt)
  \/ \E categoryId \in CategoryIds, userId \in UserArgs, failAt \in 0..1 :
       GetNotesByCategoryIdAction(categoryId, userId, failAt)
  \/ \E userId \in Users, failAt \in 0..1 : GetNotesByUserIdAction(userId, failAt)
  \/ Settle
  \/ Tick

SpecNotes == Init /\ [][NextNotes]_vars

\* Categories written and listed while the clock advances.
NextCategories ==
  \/ \E data \in CategoryInserts, failAt \in 0..1 : CreateCategoryAction(data, failAt)
  \/ \E id \in CategoryIds, data \in CategoryPartials, failAt \in 0..1 :
       UpdateCategoryAction(id, data, failAt)
  \/ \E id \in CategoryIds, failAt \in 0..1 : DeleteCategoryAction(id, failAt)
  \/ \E userId \in Users, failAt \in 0..1 : GetCategoriesByUserIdAction(userId, failAt)
  \/ \E userId \in Users, failAt \in 0..2 :
       GetCategoriesForUserAndBaseAction(userId, failAt)
  \/ Settle
  \/ Tick

SpecCategories == Init /\ [][NextCategories]_vars

\* The detail route: one base category, notes made by either user as the
\* add-note form makes them, and one browser session that opens a note,
\* edits it and leaves through the Back button.
NextDetail ==
  \/ SignIn("u1")
  \/ SignOut
  \/ \E data \in [userId : {NULL}, name : {"Work"}, color : Colors] :
       categoriesTable = {} /\ CreateCategoryAction(data, 0)
  \/ \E data \in [userId : Users, categoryId : {1}, title : {<<"a">>},
                  content : {""}] : CreateNoteAction(data, 0)
  \/ \E noteId \in NoteIds \cup {NoId}, failAtNote, failAtCategory \in 0..1 :
       OpenNoteDetailPage(noteId, failAtNote, failAtCategory)
  \/ \E newTitle \in TypedTitles : HandleTitleChange(newTitle)
  \/ \E newContent \in Htmls : HandleContentChange(newContent)
  \/ HandleSaveChangesAndNavigateBack
  \/ \E failAt \in 0..1, transport \in Transports : SaveResolves(failAt, transport)
  \/ Unmount
  \/ Settle

SpecDetail == Init /\ [][NextDetail]_vars

\* Saving a changed title in the two generations of the detail route: the
\* earlier header saves it on Enter, on its save button or on blur, the
\* later controller on Back. One generation is mounted at a time.
NextHeader ==
  \/ SignIn("u1")
  \/ SignOut
  \/ \E data \in [userId : {NULL}, name : {"Work"}, color : Colors] :
       categoriesTable = {} /\ CreateCategoryAction(data, 0)
  \/ \E data \in [userId : {"u1"}, categoryId : {1}, title : {<<"a">>},
                  content : {""}] : CreateNoteAction(data, 0)
  \/ \E id \in NoteIds : DeleteNoteAction(id, 0)
  \/ \E noteId \in NoteIds, failAt \in 0..1 :
       page.view = "closed" /\ OpenEarlierNoteDetailPage(noteId, failAt)
  \/ HandleTitleClick
  \/ \E value \in TypedTitles : HandleInputChange(value)
  \/ HandleTitleSave
  \/ \E failAt \in 0..1, transport \in Transports :
       TitleSaveResolves(failAt, transport)
  \/ UnmountHeader
  \/ \E noteId \in NoteIds :
       ~header.mounted /\ OpenNoteDetailPage(noteId, 0, 0)
  \/ \E newTitle \in TypedTitles : HandleTitleChange(newTitle)
  \/ HandleSaveChangesAndNavigateBack
  \/ \E failAt \in 0..1, transport \in Transports : SaveResolves(failAt, transport)
  \/ Unmount
  \/ Settle

SpecHeader == Init /\ [][NextHeader]_vars

\* Deletes called from a browser session, over notes of both users.
NextDelete ==
  \/ \E userId \in Users : SignIn(userId)
  \/ SignOut
  \/ \E data \in [userId : {NULL}, name : {"Work"}, color : Colors] :
       categoriesTable = {} /\ CreateCategoryAction(data, 0)
  \/ \E data \in [userId : Users, categoryId : {1}, title : Titles,
                  content : {""}] : CreateNoteAction(data, 0)
  \/ \E id \in NoteIds, failAt \in 0..1 : DeleteNoteAction(id, failAt)
  \/ \E ids \in IdLists, failAt \in 0..1 : DeleteNotesAction(ids, failAt)
  \/ Settle

SpecDelete == Init /\ [][NextDelete]_vars

\* The detail route with its rich-text widget: edits of the text reach the
\* controller through the debounce timer, and the user leaves through the
\* Back button at any moment.
NextEditor ==
  \/ SignIn("u1")
  \/ \E data \in [userId : {NULL}, name : {"Work"}, color : Colors] :
       categoriesTable = {} /\ CreateCategoryAction(data, 0)
  \/ \E data \in [userId : {"u1"}, categoryId : {1}, title : {<<"a">>},
                  content : {""}] : notesTable = {} /\ CreateNoteAction(data, 0)
  \/ \E noteId \in NoteIds : page.timers = {} /\ OpenNoteDetailPage(noteId, 0, 0)
  \/ \E newTitle \in {<<"a">>, <<"b">>} : HandleTitleChange(newTitle)
  \/ \E html \in Htmls : EditorOnUpdate(html)
  \/ EditorTimerFires
  \/ HandleSaveChangesAndNavigateBack
  \/ \E failAt \in 0..1, transport \in Transports : SaveResolves(failAt, transport)
  \/ Unmount
  \/ Settle

SpecEditor == Init /\ [][NextEditor]_vars

\* The notes board of one user with a base category and a category of the
\* user's own: it loads the notes, is rendered again with new categories
\* or another identity while it loads, and takes notes from its form.
NextBoard ==
  \/ SignIn("u1")
  \/ SignOut
  \/ \E data \in {[userId |-> NULL, name |-> "Work", color |-> "#aabbcc"],
                   [userId |-> "u1", name |-> "Personal", color |-> "#aabbcc"]} :
       /\ \A c \in categoriesTable : c.name # data.name
       /\ (data.userId # NULL => categoriesTable # {})
       /\ CreateCategoryAction(data, 0)
  \/ \E authLoaded \in BOOLEAN : OpenNotesBoard(0, authLoaded)
  \/ BoardAuthChanges
  \/ BoardCategoriesChange(0)
  \/ \E k \in 1..MaxLoads, i \in 1..MaxCategories, failAt \in 0..1,
        transport \in {"ok", "request lost"} : FetchSettles(k, i, failAt, transport)
  \/ ShowAddNoteModal
  \/ \E title \in {<<"a">>}, selectedCategoryId \in CategoryIds,
        failAt \in 0..1 :
       /\ board.showAddNoteModal
       /\ board = RenderedBoard(board)
       /\ \E i \in 1..Len(board.initialCategories) :
            board.initialCategories[i].id = selectedCategoryId
       /\ SubmitAddNote(title, selectedCategoryId, failAt, "ok")
  \/ UnmountBoard
  \/ Settle

SpecBoard == Init /\ [][NextBoard]_vars

\* Two tabs of one user on the same note: each edits its buffers and leaves
\* through the Back button, in any interleaving.
NextSessions ==
  \/ SignIn("u1")
  \/ \E data \in [userId : {NULL}, name : {"Work"}, color : Colors] :
       categoriesTable = {} /\ CreateCategoryAction(data, 0)
  \/ \E data \in [userId : {"u1"}, categoryId : {1}, title : {<<"a">>},
                  content : {""}] : notesTable = {} /\ CreateNoteAction(data, 0)
  \/ \E noteId \in NoteIds : OpenNoteDetailPage(noteId, 0, 0)
  \/ \E noteId \in NoteIds : OpenPeerNoteDetailPage(noteId)
  \/ \E newTitle \in {<<"a">>, <<"b">>} : HandleTitleChange(newTitle)
  \/ \E newContent \in Htmls : HandleContentChange(newContent)
  \/ \E newTitle \in {<<"a">>, <<"b">>} : PeerHandleTitleChange(newTitle)
  \/ \E newContent \in Htmls : PeerHandleContentChange(newContent)
  \/ HandleSaveChangesAndNavigateBack
  \/ PeerHandleSaveChangesAndNavigateBack
  \/ \E failAt \in 0..1 : SaveResolves(failAt, "ok")
  \/ \E failAt \in 0..1 : PeerSaveResolves(failAt, "ok")
  \/ Unmount
  \/ PeerUnmount
  \/ Settle

SpecSessions == Init /\ [][NextSessions]_vars

\* Titles entered in the add-note form and in the detail view of the notes
\* it made, by one signed-in or signed-out user.
NextTitle ==
  \/ SignIn("u1")
  \/ SignOut
  \/ \E data \in [userId : {NULL}, name : {"Work"}, color : Colors] :
       categoriesTable = {} /\ CreateCategoryAction(data, 0)
  \/ \E title \in TypedTitles, selectedCategoryId \in {1, NoId},
        failAt \in 0..1, transport \in {"ok", "request lost"} :
       SubmitAddNote(title, selectedCategoryId, failAt, transport)
  \/ \E noteId \in NoteIds : OpenNoteDetailPage(noteId, 0, 0)
  \/ \E newTitle \in TypedTitles : HandleTitleChange(newTitle)
  \/ HandleSaveChangesAndNavigateBack
  \/ \E failAt \in 0..1 : SaveResolves(failAt, "ok")
  \/ Unmount
  \/ Settle

SpecTitle == Init /\ [][NextTitle]_vars

\* ================================================================== claims
Called(op) == last.op = op
Data == last.res.data[1]

\* The message each action's query re-throws when the storage layer fails.
FailureMessageOf ==
  [createNoteAction |-> "Failed to create note. Please try again.",
   getNoteByIdAction |-> "Failed to retrieve note. Please try again.",
   getNotesByUserIdAction |-> "Failed to retrieve notes. Please try again.",
   getNotesByCategoryIdAction |->
     "Failed to retrieve notes for category. Please try again.",
   updateNoteAction |-> "Failed to update note. Please try again.",
   deleteNoteAction |-> "Failed to delete note. Please try again.",
   deleteNotesAction |-> "Failed to delete notes. Please try again.",
   createCategoryAction |-> "Failed to create category. Please try again.",
   getCategoryByIdAction |-> "Failed to retrieve category. Please try again.",
   getCategoriesByUserIdAction |-> "Failed to retrieve categories. Please try again.",
   getCategoriesForUserAndBaseAction |->
     "Failed to retrieve user and base categories. Please try again.",
   updateCategoryAction |-> "Failed to update category. Please try again.",
   deleteCategoryAction |-> "Failed to delete category. Please try again.",
   createQuickNoteAction |-> "Failed to create note. Please try again."]

\* C1: no action lets an exception reach its caller, and whenever the
\* action's query failed the envelope has isSuccess = false and carries the
\* query's own operation-specific message.
C1_ActionsNeverThrow ==
  /\ ~last.escaped
  /\ last.queryThrew =>
       /\ last.res.isSuccess = FALSE
       /\ last.res.message = FailureMessageOf[last.op]
       /\ last.res.data = None

C1_Witness ==
  /\ Called("createQuickNoteAction")
  /\ last.failAt = 1
  /\ last.queryThrew

\* C2 (as claimed): every envelope with isSuccess = true carries the
\* operation's result in data, also for update and delete of an absent row.
C2_SuccessCarriesData ==
  last.res.isSuccess => last.res.data # None

\* What a read action's query matched in the store.
NothingFound ==
  /\ ~last.queryThrew
  /\ last.calls > 0
  /\ CASE Called("getNoteByIdAction") ->
            ~\E n \in notesTable : n.id = last.arg.id
       [] Called("getCategoryByIdAction") ->
            ~\E c \in categoriesTable : c.id = last.arg.id
       [] Called("getNotesByUserIdAction") ->
            ~\E n \in notesTable : n.userId = last.arg.userId
       [] Called("getNotesByCategoryIdAction") ->
            ~\E n \in notesTable : /\ n.categoryId = last.arg.categoryId
                                   /\ n.userId = last.arg.userId
       [] Called("getCategoriesByUserIdAction") ->
            ~\E c \in categoriesTable : c.userId = last.arg.userId
       [] Called("getCategoriesForUserAndBaseAction") ->
            ~\E c \in categoriesTable : c.userId \in {last.arg.userId, NULL}
       [] OTHER -> FALSE

NotFoundMessages == {"Note not found", "Category not found"}

\* C3 (as claimed): every read action that finds nothing, by id or as a
\* list, returns isSuccess = false with a not-found message.
C3_ReadsFindingNothingFail ==
  NothingFound =>
    /\ last.res.isSuccess = FALSE
    /\ last.res.message \in NotFoundMessages

\* C3 (amended): a by-id read of an absent id returns isSuccess = false with
\* a not-found message; a list read that matches no row returns a success
\* envelope whose data is the empty list.
C3_AbsentIdFailsEmptyListSucceeds ==
  NothingFound =>
    IF last.op \in {"getNoteByIdAction", "getCategoryByIdAction"}
      THEN /\ last.res.isSuccess = FALSE
           /\ last.res.message =
                (IF Called("getNoteByIdAction") THEN "Note not found"
                                                ELSE "Category not found")
           /\ last.res.data = None
      ELSE /\ last.res.isSuccess = TRUE
           /\ last.res.data = Some(<<>>)

C3_Witness ==
  /\ Called("getNoteByIdAction")
  /\ NothingFound
  /\ notesTable # {}

\* The category a note write names, if the call names one.
NamesCategory(c) ==
  \/ /\ last.op \in {"createNoteAction", "createQuickNoteAction"}
     /\ last.arg.categoryId = c
  \/ /\ Called("updateNoteAction")
     /\ "categoryId" \in DOMAIN last.arg.data
     /\ last.arg.data.categoryId = c

\* C4: every stored note references exactly one existing category, and a
\* note write that names a category which does not exist is rejected.
C4_NotesReferenceExistingCategory ==
  /\ \A n \in notesTable :
       Cardinality({c \in categoriesTable : c.id = n.categoryId}) = 1
  /\ \A c \in CategoryIds \cup {NoId} :
       (NamesCategory(c) /\ ~\E row \in categoriesTable : row.id = c)
         => ~last.res.isSuccess

C4_Witness ==
  /\ Called("createNoteAction")
  /\ last.failAt = 0
  /\ last.queryThrew
  /\ notesTable # {}

\* C5: a deleteCategory(c) that succeeds leaves getNotesByCategoryId(c, u)
\* empty for every user u and leaves the notes of other categories as they
\* were; no note ever appears under a category that has been deleted.
C5_DeleteCategoryCascades ==
  /\ (Called("deleteCategoryAction") /\ last.res.isSuccess) =>
       /\ \A u \in Users : \A q \in getNotesByCategoryId(last.arg.id, u, 0) :
            q.value = Some(<<>>)
       /\ {n \in notesTable : n.categoryId # last.arg.id}
            = {n \in last.before.notes : n.categoryId # last.arg.id}
  /\ \A c \in CategoryIds :
       (c < nextCategoryId /\ ~\E row \in categoriesTable : row.id = c)
         => ~\E n \in notesTable : n.categoryId = c

C5_Witness ==
  /\ Called("deleteCategoryAction")
  /\ last.res.isSuccess
  /\ \E n \in last.before.notes : n.categoryId = last.arg.id
  /\ \E n \in notesTable : n.categoryId # last.arg.id

\* C6: a note's stored updatedAt never decreases, and after each updateNote
\* it is the server's time of that call, whatever updatedAt the caller put
\* in the partial data.
C6_UpdatedAtIsServerTime ==
  /\ ~Called("none") =>
       \A n \in last.before.notes, m \in notesTable :
         m.id = n.id => m.updatedAt >= n.updatedAt
  /\ (Called("updateNoteAction") /\ ~last.queryThrew) =>
       \A m \in notesTable : m.id = last.arg.id =>
         /\ m.updatedAt = now
         /\ last.res.isSuccess
         /\ last.res.data = Some(m)

C6_Witness ==
  /\ Called("updateNoteAction")
  /\ last.res.isSuccess
  /\ "updatedAt" \in DOMAIN last.arg.data
  /\ last.arg.data.updatedAt > now
  /\ \E n \in notesTable : n.id = last.arg.id

\* C7: deleteNotes([]) issues no storage call, leaves the store unchanged
\* and deleteNotesAction([]) returns a success envelope with count 0, also
\* when the storage layer is failing.
C7_EmptyBulkDeleteIsNoOp ==
  (Called("deleteNotesAction") /\ last.arg.ids = <<>>) =>
    /\ notesTable = last.before.notes
    /\ categoriesTable = last.before.categories
    /\ last.calls = 0
    /\ ~last.escaped
    /\ last.res.isSuccess
    /\ last.res.data = Some([count |-> 0])

C7_Witness ==
  /\ Called("deleteNotesAction")
  /\ last.arg.ids = <<>>
  /\ last.failAt = 1
  /\ notesTable # {}

\* C8: deleteNotes(ids) with a non-empty list removes exactly the stored
\* notes whose id is in ids, returns the number of rows removed, raises
\* nothing for absent ids and leaves every other row unchanged.
C8_BulkDeleteRemovesExactlyListed ==
  (Called("deleteNotesAction") /\ Len(last.arg.ids) > 0 /\ last.failAt = 0) =>
    /\ notesTable = {n \in last.before.notes : n.id \notin Range(last.arg.ids)}
    /\ categoriesTable = last.before.categories
    /\ ~last.escaped
    /\ last.res.isSuccess
    /\ last.res.data =
         Some([count |-> Cardinality(last.before.notes) - Cardinality(notesTable)])

C8_Witness ==
  /\ Called("deleteNotesAction")
  /\ Len(last.arg.ids) = 2
  /\ last.arg.ids[1] # last.arg.ids[2]
  /\ last.res.isSuccess
  /\ Data.count = 1
  /\ notesTable # {}

\* C9: getCategoriesForUserAndBase(u) lists every base category before
\* every category of u whatever their creation times, base categories by
\* name, u's categories by ascending creation time, and no category of
\* another user.
C9_BaseCategoriesFirst ==
  (Called("getCategoriesForUserAndBaseAction") /\ last.res.isSuccess) =>
    LET u == last.arg.userId
    IN /\ \A i \in 1..Len(Data) : Data[i].userId \in {NULL, u}
       /\ \A i, j \in 1..Len(Data) :
            /\ (Data[i].userId = NULL /\ Data[j].userId = u) => i < j
            /\ (i < j /\ Data[i].userId = NULL /\ Data[j].userId = NULL)
                 => NameRank(Data[i].name) <= NameRank(Data[j].name)
            /\ (i < j /\ Data[i].userId = u /\ Data[j].userId = u)
                 => Data[i].createdAt <= Data[j].createdAt

C9_Witness ==
  /\ Called("getCategoriesForUserAndBaseAction")
  /\ last.res.isSuccess
  /\ Len(Data) = 2
  /\ Data[1].userId = NULL
  /\ Data[2].userId = last.arg.userId
  /\ Data[1].createdAt > Data[2].createdAt

\* C10: getNotesByCategoryId(c, u) returns exactly the stored notes of
\* category c owned by u, each once, in descending updatedAt order.
C10_NotesOfCategoryAndUser ==
  (Called("getNotesByCategoryIdAction") /\ last.res.isSuccess) =>
    LET wanted == {n \in notesTable : /\ n.categoryId = last.arg.categoryId
                                      /\ n.userId = last.arg.userId}
    IN /\ Range(Data) = wanted
       /\ Len(Data) = Cardinality(wanted)
       /\ \A i, j \in 1..Len(Data) :
            i < j => Data[i].updatedAt >= Data[j].updatedAt

C10_Witness ==
  /\ Called("getNotesByCategoryIdAction")
  /\ last.res.isSuccess
  /\ Cardinality(categoriesTable) = 1
  /\ Cardinality(notesTable) = 2
  /\ Len(Data) = 1

\* C11: createQuickNoteAction answers a missing userId with "User not
\* authenticated." (also when the categoryId is missing too) and a missing
\* categoryId alone with "Category ID is required."; in both cases it issues
\* no storage call, invalidates no path and leaves the store as it was.
C11_QuickNoteValidatesIdentityThenCategory ==
  (Called("createQuickNoteAction")
     /\ (last.arg.userId = "" \/ last.arg.categoryId = NoId)) =>
    /\ ~last.res.isSuccess
    /\ last.res.message = (IF last.arg.userId = ""
                             THEN "User not authenticated."
                             ELSE "Category ID is required.")
    /\ last.calls = 0
    /\ last.revalidated = {}
    /\ notesTable = last.before.notes
    /\ categoriesTable = last.before.categories

C11_Witness ==
  /\ Called("createQuickNoteAction")
  /\ last.arg.userId = ""
  /\ last.arg.categoryId = NoId
  /\ categoriesTable # {}

\* The actions that write to the store.
MutationActions ==
  {"createNoteAction", "updateNoteAction", "deleteNoteAction",
   "deleteNotesAction", "createCategoryAction", "updateCategoryAction",
   "deleteCategoryAction", "createQuickNoteAction"}

\* The routes that list notes.
ListingViews == {<<"/notes">>, <<"/dashboard/notes">>}

Triggered == page.at # None
At == page.at[1]

\* C13 (as claimed): when save-and-exit is triggered with the title buffer
\* and the content buffer both equal to the last-known-saved note, no update
\* call is issued and the controller navigates to the board.
C13_NoChangeNavigates ==
  (Triggered /\ At.title = At.note.title /\ At.content = At.note.content) =>
    /\ page.sent = <<>>
    /\ page.inFlight = <<>>
    /\ page.pushed = Some(BoardRoute)

\* C13 (amended): the same for a signed-in user; for a signed-out user no
\* update call is issued either, but the controller stays on the page.
C13_NoChangeNavigatesWhenSignedIn ==
  (Triggered /\ At.title = At.note.title /\ At.content = At.note.content) =>
    /\ page.sent = <<>>
    /\ page.inFlight = <<>>
    /\ IF At.userId # NULL
         THEN page.pushed = Some(BoardRoute) /\ page.toast = "No Changes"
         ELSE page.pushed = None /\ page.toast = "Authentication Error"

C13_Witness ==
  /\ Triggered
  /\ At.userId # NULL
  /\ At.title = At.note.title
  /\ At.content = At.note.content
  /\ At.content # ""
  /\ page.pushed = Some(BoardRoute)

\* The one update call that carries the trimmed title and the content.
CombinedCall ==
  [id |-> At.note.id,
   data |-> [title |-> Trim(At.title), content |-> At.content]]

\* A save that returned a success envelope put the returned record in place
\* of the last-known-saved note.
SavedNoteIsReturnedRecord ==
  (page.result # None /\ ~page.result[1].threw /\ page.result[1].res.isSuccess) =>
    /\ page.note = page.result[1].res.data
    /\ page.note[1] \in notesTable

\* C14 (as claimed): when the title buffer or the content buffer differs
\* from the last-known-saved note, save-and-exit issues exactly one update
\* call, with the trimmed title and the content, and on success the saved
\* note becomes the returned record.
C14_ChangeIssuesOneCombinedCall ==
  /\ (Triggered /\ (At.title # At.note.title \/ At.content # At.note.content)) =>
       page.sent = <<CombinedCall>>
  /\ Len(page.inFlight) <= 1
  /\ SavedNoteIsReturnedRecord

\* C14 (amended): for a signed-in user and a title that is not empty after
\* trimming, when the trimmed title or the content differs from the saved
\* note, exactly one update call with the trimmed title and the content is
\* issued; a title that differs only in surrounding whitespace, with the
\* content unchanged, issues none.
C14_TrimmedChangeIssuesOneCombinedCall ==
  /\ (Triggered /\ At.userId # NULL /\ Trim(At.title) # <<>>) =>
       IF Trim(At.title) # Trim(At.note.title) \/ At.content # At.note.content
         THEN page.sent = <<CombinedCall>> /\ page.inFlight = <<CombinedCall>>
         ELSE page.sent = <<>> /\ page.inFlight = <<>>
  /\ Len(page.inFlight) <= 1
  /\ SavedNoteIsReturnedRecord

C14_Witness ==
  /\ page.result # None
  /\ page.result[1].res.isSuccess
  /\ page.result[1].call.data.title = <<"b">>
  /\ page.result[1].call.data.content = "<p>x</p>"
  /\ \E n \in last.before.notes :
       n.id = page.note[1].id /\ n.title = <<"a">> /\ n.content = ""

\* A save that has just ended without a success envelope carrying data.
SaveFailed(v) ==
  /\ v.result # None
  /\ \/ v.result[1].threw
     \/ ~v.result[1].res.isSuccess
     \/ v.result[1].res.data = None

C16_EmptyTitleRejectedOnClient ==
  /\ (Triggered /\ Trim(At.title) = <<>>) =>
       /\ page.sent = <<>>
       /\ page.inFlight = <<>>
       /\ page.pushed = None
       /\ page.toast \in {"Title Required", "Authentication Error"}
       /\ ~page.isSaving
  /\ (modal.at # None /\ Trim(modal.at[1].title) = <<>>) =>
       /\ modal.sent = <<>>
       /\ modal.error = Some("Title is required.")
       /\ modal.added = None

C16_Witness ==
  /\ Triggered
  /\ At.userId # NULL
  /\ At.title = <<" ">>
  /\ page.toast = "Title Required"
  /\ notesTable # {}

\* C17: the client detail component is mounted only with a note of the
\* session user; a request for a stored note of another user renders the
\* access-denied state; a request without a session is redirected to
\* sign-in with no fetch made.
C17_DetailViewOnlyForOwner ==
  /\ page.view = "client" => page.note[1].userId = page.viewer
  /\ Called("NoteDetailPage") =>
       /\ last.arg.userId = NULL => (page.view = "sign-in" /\ page.fetches = 0)
       /\ \A n \in notesTable :
            (/\ n.id = last.arg.noteId
             /\ last.failAt = 0
             /\ last.arg.userId # NULL
             /\ n.userId # last.arg.userId)
              => (page.view = "access denied" /\ page.note = None)
       /\ page.view = "client" =>
            /\ page.viewer = last.arg.userId
            /\ page.note[1] \in notesTable
            /\ page.note[1].id = last.arg.noteId

C17_Witness ==
  /\ Called("NoteDetailPage")
  /\ page.view = "access denied"
  /\ \E n \in notesTable : n.userId = last.arg.userId

\* C18 (as claimed): at most one category row exists for an owning user and
\* a name.
C18_CategoryNameUniquePerUser ==
  \A c, d \in categoriesTable :
    (c.userId \in Users /\ c.userId = d.userId /\ c.name = d.name) => c = d

\* C19 (as claimed): a single or bulk delete removes no note whose userId
\* differs from the session user the delete is called for.
C19_DeleteOnlyOwnNotes ==
  (last.op \in {"deleteNoteAction", "deleteNotesAction"}) =>
    \A n \in last.before.notes \ notesTable : n.userId = auth

\* C20: while an update call of save-and-exit is in flight isSaving is true,
\* so the Back button dispatches no second call, and nothing has been pushed
\* to the router; once the handler has ended, on whichever path, isSaving is
\* false.
C20_SavingBlocksUntilResolved ==
  /\ Len(page.inFlight) <= 1
  /\ page.inFlight # <<>> => (page.isSaving /\ page.pushed = None)
  /\ page.inFlight = <<>> => ~page.isSaving

C20_Witness ==
  /\ page.inFlight # <<>>
  /\ page.isSaving
  /\ page.currentTitle # page.inFlight[1].data.title
  /\ auth = NULL

\* The update call a tab's save-and-exit made has just been run by the
\* server, with storage working and the note still stored.
SaveApplied(v) ==
  /\ v.result # None
  /\ Called("updateNoteAction")
  /\ last.arg = v.result[1].call
  /\ last.failAt = 0
  /\ \E n \in last.before.notes : n.id = last.arg.id

\* C21: when two sessions have loaded the same note and both save, every
\* update call succeeds whatever the other session stored in the meantime,
\* and the stored title and content are then exactly those the call sent,
\* a field its session did not change included.
C21_LastWriteWins ==
  \A v \in {page, peer} :
    SaveApplied(v) =>
      /\ last.res.isSuccess
      /\ ~v.result[1].threw /\ v.result[1].res = last.res
      /\ \E n \in notesTable :
           /\ n.id = last.arg.id
           /\ n.title = last.arg.data.title
           /\ n.content = last.arg.data.content

\* A tab that changed the title only saves after the other tab stored new
\* content: the stored content goes back to what the tab had loaded.
C21_Witness ==
  /\ SaveApplied(page)
  /\ peer.view = "client"
  /\ page.result[1].note.content = last.arg.data.content
  /\ page.result[1].note.title # last.arg.data.title
  /\ \E n \in last.before.notes :
       n.id = last.arg.id /\ n.content # last.arg.data.content
  /\ \E n \in notesTable :
       n.id = last.arg.id /\ n.content = last.arg.data.content

\* C22: in the note editor at most one debounce timer is pending at any
\* time; the timer that runs hands the controller the text of the latest
\* edit; and once the editor is unmounted no timer is pending or runs.
C22_OnePendingTimerLatestEdit ==
  /\ Cardinality(page.timers) <= 1
  /\ page.view # "client" => page.timers = {}
  /\ page.fired # None =>
       /\ page.fired[1].view = "client"
       /\ page.fired[1].timer.html = page.fired[1].editor
       /\ page.currentContent = page.fired[1].timer.html

\* The timer of the second edit of a burst, which replaced the timer of
\* the first, has run.
C22_Witness ==
  /\ page.fired # None
  /\ page.fired[1].timer.replaced
  /\ page.timers = {}

\* C27 (as claimed): whenever save-and-exit is triggered, the content it
\* compares with the saved note, and writes if it saves, is the text the
\* editor shows, even while the timer of the last edit is still pending.
C27_NoEditLostAtSaveAndExit ==
  Triggered =>
    /\ At.content = page.editor
    /\ \A i \in 1..Len(page.sent) : page.sent[i].data.content = page.editor

\* C28: when the update call of save-and-exit fails, by a failure envelope
\* or by a thrown error, the controller does not navigate, the title and
\* content buffers and the last-known-saved note are as they were, the Back
\* button is enabled again, and a signed-in user's next save-and-exit with
\* the same buffers issues the same update again.
C28_FailedSaveStaysAndKeepsBuffers ==
  SaveFailed(page) =>
    /\ page.pushed = None
    /\ page.view = "client"
    /\ ~page.isSaving
    /\ page.currentTitle = page.result[1].currentTitle
    /\ page.currentContent = page.result[1].currentContent
    /\ page.note = Some(page.result[1].note)
    /\ (/\ auth # NULL
        /\ Trim(page.currentTitle) = page.result[1].call.data.title
        /\ page.currentContent = page.result[1].call.data.content) =>
         HandlerUntilAwait(Rendered(page), auth).sent = <<page.result[1].call>>

\* A save of a new title and new content came back with a failure envelope.
C28_Witness ==
  /\ SaveFailed(page)
  /\ ~page.result[1].threw
  /\ page.result[1].call.data = [title |-> <<"b">>, content |-> "<p>x</p>"]
  /\ page.currentTitle = <<"b">>
  /\ page.currentContent = "<p>x</p>"
  /\ page.note[1].title = <<"a">>
  /\ page.note[1].content = ""

NoteMutationActions ==
  {"createNoteAction", "updateNoteAction", "deleteNoteAction",
   "deleteNotesAction", "createQuickNoteAction"}

\* C30 (as claimed): every note mutation action that succeeds has
\* invalidated the board route the UI navigates to, and an updateNoteAction
\* that succeeds has invalidated the route of that note's detail view.
C30_InvalidatedPathsAreUiRoutes ==
  /\ (last.op \in NoteMutationActions /\ last.res.isSuccess) =>
       BoardRoute \in last.revalidated
  /\ (Called("updateNoteAction") /\ last.res.isSuccess) =>
       DetailRoute(last.arg.id) \in last.revalidated

\* What the last step of the board did.
Happened(kind) == board.event # None /\ board.event[1].kind = kind
Event == board.event[1]
Mapping == board.notesByCategoryId
OkEnvelope(result) == result.isSuccess /\ result.data # None

FetchFailed == Happened("fetch") /\ (Event.threw \/ ~OkEnvelope(Event.result))
FetchFailedByEnvelope == Happened("fetch") /\ ~Event.threw /\ ~OkEnvelope(Event.result)
Scoped(category) == Some(<<"Failed to load notes for ", category.name, ".">>)

\* C24 (as claimed): when the fetch for one category fails, an error message
\* naming that category is recorded, that category's array is the empty
\* list, the other fetches of the run go on, and when all have settled the
\* mapping holds every category's array.
C24_OneFailedFetchOthersStored ==
  /\ FetchFailed =>
       LET load == Event.load
           was == Event.before.loads[CHOOSE k \in 1..Len(Event.before.loads) :
                                       Event.before.loads[k].run = load.run]
       IN /\ board.error = Scoped(load.categories[Event.index])
          /\ Event.index \in DOMAIN load.notesArrays
          /\ load.notesArrays[Event.index] = <<>>
          /\ load.pending = was.pending \ {Event.index}
          /\ \A j \in DOMAIN was.notesArrays : load.notesArrays[j] = was.notesArrays[j]
  /\ (Happened("fetch") /\ Event.load.pending = {}) =>
       /\ DOMAIN Event.load.notesArrays = 1..Len(Event.load.categories)
       /\ \A j \in 1..Len(Event.load.categories) :
            /\ Event.load.categories[j].id \in DOMAIN Mapping
            /\ Mapping[Event.load.categories[j].id] = Event.load.notesArrays[j]

\* C24 (amended): the same when the fetch comes back with a failure
\* envelope, the mapping being published when no fetch of the run was
\* rejected; a fetch that is rejected leaves the message for unexpected
\* errors if it is the first of its run to be rejected, and the run then
\* never changes the mapping.
C24_FailureEnvelopeOthersStored ==
  /\ FetchFailedByEnvelope =>
       LET load == Event.load
           was == Event.before.loads[CHOOSE k \in 1..Len(Event.before.loads) :
                                       Event.before.loads[k].run = load.run]
       IN /\ board.error = Scoped(load.categories[Event.index])
          /\ load.notesArrays[Event.index] = <<>>
          /\ load.pending = was.pending \ {Event.index}
          /\ \A j \in DOMAIN was.notesArrays : load.notesArrays[j] = was.notesArrays[j]
  /\ (Happened("fetch") /\ OkEnvelope(Event.result) /\ ~Event.threw) =>
       Event.load.notesArrays[Event.index] = Event.result.data[1]
  /\ (Happened("fetch") /\ Event.load.pending = {} /\ ~Event.load.rejected) =>
       \A j \in 1..Len(Event.load.categories) :
         /\ Event.load.categories[j].id \in DOMAIN Mapping
         /\ Mapping[Event.load.categories[j].id] = Event.load.notesArrays[j]
  /\ (Happened("fetch") /\ Event.load.rejected) =>
       /\ Mapping = Event.before.notesByCategoryId
       /\ Event.threw =>
            \/ board.error = Some(<<"An unexpected error occurred while loading notes.">>)
            \/ board.error = Event.before.error

\* A run over two categories is published after the fetch for one of them
\* came back with a failure envelope: that category has no notes in the
\* mapping, the other has the note that was fetched for it.
C24_Witness ==
  /\ Happened("fetch")
  /\ Event.load.pending = {}
  /\ ~Event.load.rejected
  /\ Len(Event.load.categories) = 2
  /\ \E j \in 1..2 :
       /\ board.error = Scoped(Event.load.categories[j])
       /\ Mapping[Event.load.categories[j].id] = <<>>
       /\ Mapping[Event.load.categories[3 - j].id] # <<>>

\* C25: while the identity has not loaded the board issues no fetch; an
\* effect that runs with a user id and a non-empty category list issues
\* exactly one fetch per category of the list, for that user; an effect that
\* runs with the identity loaded and no user issues none, empties the
\* mapping and shows the authentication error.
C25_FetchesWaitForIdentity ==
  /\ (board.mounted /\ ~board.authLoaded) =>
       /\ board.loads = <<>>
       /\ board.started = 0
       /\ Happened("effect") => Event.fetches = <<>>
  /\ (Happened("effect") /\ board.authLoaded /\ board.userId # NULL
        /\ Len(board.initialCategories) # 0) =>
       /\ Len(Event.fetches) = Len(board.initialCategories)
       /\ \A i \in 1..Len(board.initialCategories) :
            Event.fetches[i] = [categoryId |-> board.initialCategories[i].id,
                                userId |-> board.userId]
       /\ Len(board.loads) = Len(Event.before.loads) + 1
       /\ board.loads[Len(board.loads)].pending = 1..Len(board.initialCategories)
  /\ (Happened("effect") /\ board.authLoaded /\ board.userId = NULL) =>
       /\ Event.fetches = <<>>
       /\ board.loads = Event.before.loads
       /\ Mapping = <<>>
       /\ board.error =
            Some(<<"User not authenticated. Please sign in to view notes.">>)

\* The board was mounted before the identity had loaded; now it has, with a
\* user, and the effect issues its two fetches.
C25_Witness ==
  /\ Happened("effect")
  /\ Event.before.mounted
  /\ ~Event.before.authLoaded
  /\ Event.before.loads = <<>>
  /\ board.userId = "u1"
  /\ Len(Event.fetches) = 2

\* C26: the note the add-note form created is appended to the list of its
\* own category in the mapping, every other list is as it was, no load is
\* started, and the board navigates to the note's detail route; this
\* happens only with the note a successful createNoteAction returned, and a
\* form that ends with an error leaves mapping and route alone.
C26_AddedNoteMergedLocally ==
  /\ Happened("added") =>
       LET newNote == Event.note
           prevNotes == Event.before.notesByCategoryId
       IN /\ Called("createNoteAction")
          /\ last.res.isSuccess
          /\ last.res.data = Some(newNote)
          /\ DOMAIN Mapping = DOMAIN prevNotes \cup {newNote.categoryId}
          /\ Mapping[newNote.categoryId] =
               Append(IF newNote.categoryId \in DOMAIN prevNotes
                        THEN prevNotes[newNote.categoryId] ELSE <<>>, newNote)
          /\ \A id \in DOMAIN prevNotes \ {newNote.categoryId} :
               Mapping[id] = prevNotes[id]
          /\ board.loads = Event.before.loads
          /\ board.started = Event.before.started
          /\ board.pushed = Some(DetailRoute(newNote.id))
  /\ (board.mounted /\ modal.at # None /\ modal.error # None) =>
       /\ ~Happened("added")
       /\ board.pushed = None
       /\ modal.added = None
  /\ (board.mounted /\ Called("createNoteAction") /\ last.res.isSuccess) =>
       \E a \in board.added : a.id = last.res.data[1].id

\* A note is added to one category while the other category's list has a
\* note in it.
C26_Witness ==
  /\ Happened("added")
  /\ \E id \in DOMAIN Event.before.notesByCategoryId :
       /\ id # Event.note.categoryId
       /\ Event.before.notesByCategoryId[id] # <<>>
  /\ Event.note.categoryId \in DOMAIN Event.before.notesByCategoryId

\* C29 (as claimed): a run of loadAllNotes that was started before the run
\* whose mapping is shown never sets the mapping, and a run never sets it
\* to one without a note that handleNoteAdded merged after the run began.
C29_StaleLoadNeverOverwrites ==
  (Happened("fetch") /\ Event.load.pending = {} /\ ~Event.load.rejected) =>
    /\ Event.load.run > Event.before.shown
    /\ \A a \in board.added :
         a.after >= Event.load.run =>
           \E id \in DOMAIN Mapping :
             \E i \in 1..Len(Mapping[id]) : Mapping[id][i].id = a.id

====
